---- MODULE Spec2Model ----
(***************************************************************************)
(* Topic matcher of pubsub-mfe (src/pattern-playground/matcher.js): the    *)
(* process-wide matcher cache, compileMatcher, matchTopic,                 *)
(* validatePublishTopic, splitTopic, joinTopic and clearMatcherCache.      *)
(*                                                                         *)
(* A JavaScript string is a sequence of one-character strings, so that     *)
(* split, join, includes and the segment regular expression are computed   *)
(* character by character.  Only string arguments are modelled (the        *)
(* typeof guard of a non-string argument is outside the model).            *)
(***************************************************************************)
EXTENDS Integers, Sequences, FiniteSets, TLC

(***************************************************************************)
(* Bounds of the explored inputs.                                          *)
(***************************************************************************)
\* longest pattern drawn for compileMatcher, in segments
MaxPatternSegs == 3
\* longest topic drawn for matchTopic, in segments
MaxTopicSegs == 4
\* capacity at which the cache is instantiated (see MAX_CACHE_SIZE)
CacheBound == 3

(***************************************************************************)
(* Program constants (matcher.js lines 2-6).                               *)
(***************************************************************************)
SEGMENT_DELIMITER == "."
SINGLE_WILDCARD == <<"+">>
MULTI_WILDCARD == <<"#">>
\* The source sets 1e3.  The code is parametric in the value; the model
\* instantiates it at CacheBound so that the cache fills up and evicts
\* within the explored behaviours.
MAX_CACHE_SIZE == CacheBound

(***************************************************************************)
(* The character class of /^[a-zA-Z0-9_-]+$/ (lines 33 and 102).           *)
(***************************************************************************)
SegmentCharClass ==
    {"a","b","c","d","e","f","g","h","i","j","k","l","m",
     "n","o","p","q","r","s","t","u","v","w","x","y","z"}
    \cup
    {"A","B","C","D","E","F","G","H","I","J","K","L","M",
     "N","O","P","Q","R","S","T","U","V","W","X","Y","Z"}
    \cup {"0","1","2","3","4","5","6","7","8","9"}
    \cup {"_", "-"}

\* Variant: the expression without its anchors, /[a-zA-Z0-9_-]+/.
TestSegmentUnanchored(segment) ==
    \E k \in 1..Len(segment) : segment[k] \in SegmentCharClass

\* /^[a-zA-Z0-9_-]+$/.test(segment)
TestSegment(segment) ==
    /\ Len(segment) >= 1
    /\ \A k \in 1..Len(segment) : segment[k] \in SegmentCharClass

\* String.prototype.includes for a one-character needle
Includes(str, needle) == \E k \in 1..Len(str) : <<str[k]>> = needle

(***************************************************************************)
(* splitTopic / joinTopic (lines 109-114).                                 *)
(***************************************************************************)
RECURSIVE splitTopic(_)
splitTopic(topic) ==
    IF \A k \in 1..Len(topic) : topic[k] # SEGMENT_DELIMITER
    THEN <<topic>>
    ELSE LET d == CHOOSE k \in 1..Len(topic) :
                      /\ topic[k] = SEGMENT_DELIMITER
                      /\ \A j \in 1..(k - 1) : topic[j] # SEGMENT_DELIMITER
         IN  <<SubSeq(topic, 1, d - 1)>>
                 \o splitTopic(SubSeq(topic, d + 1, Len(topic)))

RECURSIVE joinTopic(_)
joinTopic(segments) ==
    IF Len(segments) = 0 THEN <<>>
    ELSE IF Len(segments) = 1 THEN segments[1]
    ELSE segments[1] \o <<SEGMENT_DELIMITER>> \o joinTopic(Tail(segments))

(***************************************************************************)
(* The insertion-ordered Map (line 5): a sequence of [key, value] entries, *)
(* oldest insertion first.  get yields <<>> for undefined.                 *)
(***************************************************************************)
MapHas(map, key) == \E k \in 1..Len(map) : map[k].key = key

\* Variant: the lookup yields the oldest entry's value for any stored key.
MapGetFirst(map, key) ==
    IF MapHas(map, key) THEN <<map[1].value>> ELSE <<>>

MapGet(map, key) ==
    IF MapHas(map, key)
    THEN <<map[CHOOSE k \in 1..Len(map) : map[k].key = key].value>>
    ELSE <<>>

\* Map.prototype.set: an existing key keeps its position, a new key is appended
MapSet(map, key, value) ==
    IF MapHas(map, key)
    THEN [k \in 1..Len(map) |->
             IF map[k].key = key THEN [key |-> key, value |-> value] ELSE map[k]]
    ELSE Append(map, [key |-> key, value |-> value])

MapDelete(map, key) == SelectSeq(map, LAMBDA e : e.key # key)

\* Variant: clear leaves the newest entry in place.
MapClearKeepNewest(map) == IF Len(map) = 0 THEN <<>> ELSE <<map[Len(map)]>>

\* Map.prototype.clear
MapClear(map) == SubSeq(map, 1, 0)

\* map.keys().next().value, as a sequence of zero or one key
MapFirstKey(map) == IF Len(map) = 0 THEN <<>> ELSE <<map[1].key>>

(***************************************************************************)
(* compileMatcher (lines 7-52).                                            *)
(***************************************************************************)
\* the placeholder of the call record when no matcher is involved
NoMatcher == [pattern |-> <<>>, hasWildcards |-> FALSE, segments |-> <<>>]

\* Variant: '#' is accepted in any position (no check of line 24).
CompileSegmentMultiAnywhere(segments, i) ==
    LET segment == segments[i + 1] IN
    IF segment = <<>>
    THEN [threw |-> TRUE, wildcard |-> FALSE, record |-> [type |-> "none"]]
    ELSE IF segment = MULTI_WILDCARD
    THEN [threw |-> FALSE, wildcard |-> TRUE, record |-> [type |-> "multi"]]
    ELSE IF segment = SINGLE_WILDCARD
    THEN [threw |-> FALSE, wildcard |-> TRUE, record |-> [type |-> "single"]]
    ELSE IF ~TestSegment(segment)
    THEN [threw |-> TRUE, wildcard |-> FALSE, record |-> [type |-> "none"]]
    ELSE [threw |-> FALSE, wildcard |-> FALSE,
          record |-> [type |-> "literal", value |-> segment]]

\* Variant: '#' does not set hasWildcards (no assignment of line 27).
CompileSegmentMultiUnflagged(segments, i) ==
    LET segment == segments[i + 1] IN
    IF segment = <<>>
    THEN [threw |-> TRUE, wildcard |-> FALSE, record |-> [type |-> "none"]]
    ELSE IF segment = MULTI_WILDCARD
    THEN IF i # Len(segments) - 1
         THEN [threw |-> TRUE, wildcard |-> FALSE, record |-> [type |-> "none"]]
         ELSE [threw |-> FALSE, wildcard |-> FALSE, record |-> [type |-> "multi"]]
    ELSE IF segment = SINGLE_WILDCARD
    THEN [threw |-> FALSE, wildcard |-> TRUE, record |-> [type |-> "single"]]
    ELSE IF ~TestSegment(segment)
    THEN [threw |-> TRUE, wildcard |-> FALSE, record |-> [type |-> "none"]]
    ELSE [threw |-> FALSE, wildcard |-> FALSE,
          record |-> [type |-> "literal", value |-> segment]]

\* Variant: '+' pushes a literal record and sets no flag (lines 29-31).
CompileSegmentSingleAsLiteral(segments, i) ==
    LET segment == segments[i + 1] IN
    IF segment = <<>>
    THEN [threw |-> TRUE, wildcard |-> FALSE, record |-> [type |-> "none"]]
    ELSE IF segment = MULTI_WILDCARD
    THEN IF i # Len(segments) - 1
         THEN [threw |-> TRUE, wildcard |-> FALSE, record |-> [type |-> "none"]]
         ELSE [threw |-> FALSE, wildcard |-> TRUE, record |-> [type |-> "multi"]]
    ELSE IF segment = SINGLE_WILDCARD
    THEN [threw |-> FALSE, wildcard |-> FALSE,
          record |-> [type |-> "literal", value |-> segment]]
    ELSE IF ~TestSegment(segment)
    THEN [threw |-> TRUE, wildcard |-> FALSE, record |-> [type |-> "none"]]
    ELSE [threw |-> FALSE, wildcard |-> FALSE,
          record |-> [type |-> "literal", value |-> segment]]

\* One iteration of the loop (lines 19-39) on segments[i], i counted from 0:
\* whether it throws, whether it sets hasWildcards, and the record it pushes.
CompileSegment(segments, i) ==
    LET segment == segments[i + 1] IN
    IF segment = <<>>
    THEN [threw |-> TRUE, wildcard |-> FALSE, record |-> [type |-> "none"]]
    ELSE IF segment = MULTI_WILDCARD
    THEN IF i # Len(segments) - 1
         THEN [threw |-> TRUE, wildcard |-> FALSE, record |-> [type |-> "none"]]
         ELSE [threw |-> FALSE, wildcard |-> TRUE, record |-> [type |-> "multi"]]
    ELSE IF segment = SINGLE_WILDCARD
    THEN [threw |-> FALSE, wildcard |-> TRUE, record |-> [type |-> "single"]]
    ELSE IF ~TestSegment(segment)
    THEN [threw |-> TRUE, wildcard |-> FALSE, record |-> [type |-> "none"]]
    ELSE [threw |-> FALSE, wildcard |-> FALSE,
          record |-> [type |-> "literal", value |-> segment]]

\* The loop of lines 18-40: the first throwing segment ends it.
RECURSIVE CompileLoop(_, _, _, _)
CompileLoop(segments, i, matcherSegments, hasWildcards) ==
    IF ~(i < Len(segments))
    THEN [threw |-> FALSE, hasWildcards |-> hasWildcards,
          segments |-> matcherSegments]
    ELSE LET step == CompileSegment(segments, i) IN
         IF step.threw
         THEN [threw |-> TRUE, hasWildcards |-> FALSE, segments |-> <<>>]
         ELSE CompileLoop(segments, i + 1,
                          Append(matcherSegments, step.record),
                          hasWildcards \/ step.wildcard)

\* Variant: eviction only once the size exceeds the bound (> for >=).
CacheInsertOffByOne(cache, pattern, matcher) ==
    LET full == Len(cache) > MAX_CACHE_SIZE
        firstKey == IF full THEN MapFirstKey(cache) ELSE <<>>
        kept == IF firstKey # <<>> THEN MapDelete(cache, firstKey[1]) ELSE cache
    IN  [cache |-> MapSet(kept, pattern, matcher), firstKey |-> firstKey]

\* The cache after a new matcher is stored (lines 46-50), with the evicted
\* key (firstKey) as a sequence of zero or one key.
CacheInsert(cache, pattern, matcher) ==
    LET full == Len(cache) >= MAX_CACHE_SIZE
        firstKey == IF full THEN MapFirstKey(cache) ELSE <<>>
        kept == IF firstKey # <<>> THEN MapDelete(cache, firstKey[1]) ELSE cache
    IN  [cache |-> MapSet(kept, pattern, matcher), firstKey |-> firstKey]

\* Variant: a cache hit re-inserts the entry as the newest (least recently
\* used eviction instead of insertion order).
compileMatcherRefreshOnHit(cache, pattern) ==
    LET cached == MapGet(cache, pattern)
        raise == [threw |-> TRUE, matcher |-> NoMatcher, cache |-> cache,
                  firstKey |-> <<>>, hit |-> FALSE, created |-> FALSE]
    IN
    IF cached # <<>>
    THEN [threw |-> FALSE, matcher |-> cached[1],
          cache |-> MapSet(MapDelete(cache, pattern), pattern, cached[1]),
          firstKey |-> <<>>, hit |-> TRUE, created |-> FALSE]
    ELSE IF pattern = <<>>
    THEN raise
    ELSE LET loop == CompileLoop(splitTopic(pattern), 0, <<>>, FALSE) IN
         IF loop.threw
         THEN raise
         ELSE LET matcher == [pattern |-> pattern,
                              hasWildcards |-> loop.hasWildcards,
                              segments |-> loop.segments]
                  stored == CacheInsert(cache, pattern, matcher)
              IN  [threw |-> FALSE, matcher |-> matcher,
                   cache |-> stored.cache, firstKey |-> stored.firstKey,
                   hit |-> FALSE, created |-> TRUE]

\* Variant: the matcher is stored before the segments are validated, so a
\* pattern whose loop throws leaves an entry behind.
compileMatcherStoreFirst(cache, pattern) ==
    LET cached == MapGet(cache, pattern)
        raise == [threw |-> TRUE, matcher |-> NoMatcher, cache |-> cache,
                  firstKey |-> <<>>, hit |-> FALSE, created |-> FALSE]
    IN
    IF cached # <<>>
    THEN [threw |-> FALSE, matcher |-> cached[1], cache |-> cache,
          firstKey |-> <<>>, hit |-> TRUE, created |-> FALSE]
    ELSE IF pattern = <<>>
    THEN raise
    ELSE LET loop == CompileLoop(splitTopic(pattern), 0, <<>>, FALSE)
             matcher == [pattern |-> pattern,
                         hasWildcards |-> loop.hasWildcards,
                         segments |-> loop.segments]
             stored == CacheInsert(cache, pattern, matcher)
         IN  IF loop.threw
             THEN [raise EXCEPT !.cache = stored.cache]
             ELSE [threw |-> FALSE, matcher |-> matcher,
                   cache |-> stored.cache, firstKey |-> stored.firstKey,
                   hit |-> FALSE, created |-> TRUE]

\* Variant: a cache hit returns a copy of the stored matcher ({...cached}).
compileMatcherCopyOnHit(cache, pattern) ==
    LET cached == MapGet(cache, pattern)
        raise == [threw |-> TRUE, matcher |-> NoMatcher, cache |-> cache,
                  firstKey |-> <<>>, hit |-> FALSE, created |-> FALSE]
    IN
    IF cached # <<>>
    THEN [threw |-> FALSE, matcher |-> cached[1], cache |-> cache,
          firstKey |-> <<>>, hit |-> TRUE, created |-> TRUE]
    ELSE IF pattern = <<>>
    THEN raise
    ELSE LET loop == CompileLoop(splitTopic(pattern), 0, <<>>, FALSE) IN
         IF loop.threw
         THEN raise
         ELSE LET matcher == [pattern |-> pattern,
                              hasWildcards |-> loop.hasWildcards,
                              segments |-> loop.segments]
                  stored == CacheInsert(cache, pattern, matcher)
              IN  [threw |-> FALSE, matcher |-> matcher,
                   cache |-> stored.cache, firstKey |-> stored.firstKey,
                   hit |-> FALSE, created |-> TRUE]

\* compileMatcher on a cache: what it returns or that it throws, the cache
\* it leaves, the key it evicted, whether it was served from the cache, and
\* whether the matcher returned is the object created at line 41.
compileMatcher(cache, pattern) ==
    LET cached == MapGet(cache, pattern)
        raise == [threw |-> TRUE, matcher |-> NoMatcher, cache |-> cache,
                  firstKey |-> <<>>, hit |-> FALSE, created |-> FALSE]
    IN
    IF cached # <<>>
    THEN [threw |-> FALSE, matcher |-> cached[1], cache |-> cache,
          firstKey |-> <<>>, hit |-> TRUE, created |-> FALSE]
    ELSE IF pattern = <<>>
    THEN raise
    ELSE LET loop == CompileLoop(splitTopic(pattern), 0, <<>>, FALSE) IN
         IF loop.threw
         THEN raise
         ELSE LET matcher == [pattern |-> pattern,
                              hasWildcards |-> loop.hasWildcards,
                              segments |-> loop.segments]
                  stored == CacheInsert(cache, pattern, matcher)
              IN  [threw |-> FALSE, matcher |-> matcher,
                   cache |-> stored.cache, firstKey |-> stored.firstKey,
                   hit |-> FALSE, created |-> TRUE]

(***************************************************************************)
(* matchTopic and matchSegments (lines 53-86); indices count from 0.       *)
(***************************************************************************)
\* Variant: an exhausted pattern succeeds whatever is left of the topic.
RECURSIVE matchSegmentsPrefix(_, _, _, _)
matchSegmentsPrefix(topicSegments, topicIndex, patternSegments, patternIndex) ==
    IF patternIndex >= Len(patternSegments)
    THEN TRUE
    ELSE LET patternSegment == patternSegments[patternIndex + 1] IN
         IF patternSegment.type = "multi"
         THEN TRUE
         ELSE IF patternSegment.type = "single"
         THEN IF topicIndex >= Len(topicSegments)
              THEN FALSE
              ELSE matchSegmentsPrefix(topicSegments, topicIndex + 1,
                                       patternSegments, patternIndex + 1)
         ELSE IF topicIndex >= Len(topicSegments)
              THEN FALSE
              ELSE IF topicSegments[topicIndex + 1] # patternSegment.value
              THEN FALSE
              ELSE matchSegmentsPrefix(topicSegments, topicIndex + 1,
                                       patternSegments, patternIndex + 1)

\* Variant: '#' needs at least one remaining topic segment.
RECURSIVE matchSegmentsMultiOneOrMore(_, _, _, _)
matchSegmentsMultiOneOrMore(topicSegments, topicIndex, patternSegments, patternIndex) ==
    IF patternIndex >= Len(patternSegments)
    THEN topicIndex >= Len(topicSegments)
    ELSE LET patternSegment == patternSegments[patternIndex + 1] IN
         IF patternSegment.type = "multi"
         THEN topicIndex < Len(topicSegments)
         ELSE IF patternSegment.type = "single"
         THEN IF topicIndex >= Len(topicSegments)
              THEN FALSE
              ELSE matchSegmentsMultiOneOrMore(topicSegments, topicIndex + 1,
                                               patternSegments, patternIndex + 1)
         ELSE IF topicIndex >= Len(topicSegments)
              THEN FALSE
              ELSE IF topicSegments[topicIndex + 1] # patternSegment.value
              THEN FALSE
              ELSE matchSegmentsMultiOneOrMore(topicSegments, topicIndex + 1,
                                               patternSegments, patternIndex + 1)

\* Variant: the single case does not advance the topic index.
RECURSIVE matchSegmentsSingleStays(_, _, _, _)
matchSegmentsSingleStays(topicSegments, topicIndex, patternSegments, patternIndex) ==
    IF patternIndex >= Len(patternSegments)
    THEN topicIndex >= Len(topicSegments)
    ELSE LET patternSegment == patternSegments[patternIndex + 1] IN
         IF patternSegment.type = "multi"
         THEN TRUE
         ELSE IF patternSegment.type = "single"
         THEN IF topicIndex >= Len(topicSegments)
              THEN FALSE
              ELSE matchSegmentsSingleStays(topicSegments, topicIndex,
                                            patternSegments, patternIndex + 1)
         ELSE IF topicIndex >= Len(topicSegments)
              THEN FALSE
              ELSE IF topicSegments[topicIndex + 1] # patternSegment.value
              THEN FALSE
              ELSE matchSegmentsSingleStays(topicSegments, topicIndex + 1,
                                            patternSegments, patternIndex + 1)

RECURSIVE matchSegments(_, _, _, _)
matchSegments(topicSegments, topicIndex, patternSegments, patternIndex) ==
    IF patternIndex >= Len(patternSegments)
    THEN topicIndex >= Len(topicSegments)
    ELSE LET patternSegment == patternSegments[patternIndex + 1] IN
         IF patternSegment.type = "multi"
         THEN TRUE
         ELSE IF patternSegment.type = "single"
         THEN IF topicIndex >= Len(topicSegments)
              THEN FALSE
              ELSE matchSegments(topicSegments, topicIndex + 1,
                                 patternSegments, patternIndex + 1)
         ELSE IF topicIndex >= Len(topicSegments)
              THEN FALSE
              ELSE IF topicSegments[topicIndex + 1] # patternSegment.value
              THEN FALSE
              ELSE matchSegments(topicSegments, topicIndex + 1,
                                 patternSegments, patternIndex + 1)

\* Variant: no test for empty topic segments (lines 58-60 left out).
matchTopicNoEmptyTest(topic, matcher) ==
    IF ~matcher.hasWildcards
    THEN topic = matcher.pattern
    ELSE matchSegments(splitTopic(topic), 0, matcher.segments, 0)

\* Variant: the fast path tests topic.startsWith(matcher.pattern).
matchTopicStartsWith(topic, matcher) ==
    IF ~matcher.hasWildcards
    THEN /\ Len(topic) >= Len(matcher.pattern)
         /\ SubSeq(topic, 1, Len(matcher.pattern)) = matcher.pattern
    ELSE LET topicSegments == splitTopic(topic) IN
         IF \E k \in 1..Len(topicSegments) : topicSegments[k] = <<>>
         THEN FALSE
         ELSE matchSegments(topicSegments, 0, matcher.segments, 0)

matchTopic(topic, matcher) ==
    IF ~matcher.hasWildcards
    THEN topic = matcher.pattern
    ELSE LET topicSegments == splitTopic(topic) IN
         IF \E k \in 1..Len(topicSegments) : topicSegments[k] = <<>>
         THEN FALSE
         ELSE matchSegments(topicSegments, 0, matcher.segments, 0)

\* Variant: the topics matched are memoised in the Map.
matchTopicCallMemoising(cache, topic, matcher) ==
    [result |-> matchTopic(topic, matcher),
     cache |-> IF matchTopic(topic, matcher) THEN MapSet(cache, topic, matcher)
                                             ELSE cache,
     matcher |-> matcher]

\* A call of matchTopic with what it leaves behind: no statement of lines
\* 53-86 assigns to the Map or to a property of the matcher.
matchTopicCall(cache, topic, matcher) ==
    [result |-> matchTopic(topic, matcher), cache |-> cache,
     matcher |-> matcher]

\* getMatcherCacheSize (lines 118-120)
getMatcherCacheSize(cache) == Len(cache)

(***************************************************************************)
(* validatePublishTopic (lines 87-108): TRUE when it throws, FALSE when    *)
(* it returns normally.                                                    *)
(***************************************************************************)
\* Variant: the loop without the character test (lines 102-106 left out).
RECURSIVE ValidateLoopNoCharTest(_, _)
ValidateLoopNoCharTest(segments, i) ==
    IF ~(i < Len(segments))
    THEN FALSE
    ELSE LET segment == segments[i + 1] IN
         IF segment = <<>> THEN TRUE
         ELSE ValidateLoopNoCharTest(segments, i + 1)

\* the loop of lines 97-107 from index i on
RECURSIVE ValidateLoop(_, _)
ValidateLoop(segments, i) ==
    IF ~(i < Len(segments))
    THEN FALSE
    ELSE LET segment == segments[i + 1] IN
         IF segment = <<>> THEN TRUE
         ELSE IF ~TestSegment(segment) THEN TRUE
         ELSE ValidateLoop(segments, i + 1)

\* Variant: the loop starts at the second segment (i = 1 for i = 0).
validatePublishTopicSkipFirst(topic) ==
    IF topic = <<>>
    THEN TRUE
    ELSE IF Includes(topic, SINGLE_WILDCARD) \/ Includes(topic, MULTI_WILDCARD)
    THEN TRUE
    ELSE ValidateLoop(splitTopic(topic), 1)

validatePublishTopic(topic) ==
    IF topic = <<>>
    THEN TRUE
    ELSE IF Includes(topic, SINGLE_WILDCARD) \/ Includes(topic, MULTI_WILDCARD)
    THEN TRUE
    ELSE ValidateLoop(splitTopic(topic), 0)

(***************************************************************************)
(* Inputs.  Strings are built from sample segments with joinTopic; the     *)
(* samples cover literals, both wildcards, the empty segment, a wildcard   *)
(* inside a longer segment and a character outside the class.              *)
(***************************************************************************)
SeqsUpTo(S, n) == UNION {[1..k -> S] : k \in 1..n}

PatternSegs ==
    {<<>>, <<"a">>, <<"b">>, <<"+">>, <<"#">>, <<"a", "+">>, <<"*">>}

TopicSegs == {<<>>, <<"a">>, <<"b">>, <<"+">>}

\* 'a.+.c', 'Z_-9', 'a*'
ExamplePatterns ==
    {<<"a", ".", "+", ".", "c">>, <<"Z", "_", "-", "9">>, <<"a", "*">>}

\* 'a.b.c', 'a.c', 'a.b.d.c', 'a.b.c.d', 'x.y', '#', 'a.#'
ExampleTopics ==
    {<<"a", ".", "b", ".", "c">>, <<"a", ".", "c">>,
     <<"a", ".", "b", ".", "d", ".", "c">>,
     <<"a", ".", "b", ".", "c", ".", "d">>, <<"x", ".", "y">>,
     <<"#">>, <<"a", ".", "#">>}

PatternInputs ==
    {joinTopic(s) : s \in SeqsUpTo(PatternSegs, MaxPatternSegs)}
        \cup ExamplePatterns

TopicInputs ==
    {joinTopic(s) : s \in SeqsUpTo(TopicSegs, MaxTopicSegs)}
        \cup ExampleTopics

ValidateInputs == PatternInputs \cup TopicInputs

\* The inputs of the cache behaviours: 'a', 'a.b', 'a.+', 'a.#', '#' are
\* valid patterns, 'a..b' and 'a.#.b' are not.
CachePatterns ==
    {<<"a">>, <<"a", ".", "b">>, <<"a", ".", "+">>, <<"a", ".", "#">>,
     <<"#">>, <<"a", ".", ".", "b">>, <<"a", ".", "#", ".", "b">>}

CacheTopics == {<<"a">>, <<"a", ".", "b">>, <<"b">>}

(***************************************************************************)
(* State: the module-level cache and the record of the last call.          *)
(***************************************************************************)
VARIABLES
    matcherCache,   \* the Map of line 5
    callOp,         \* the function called last ("init" before any call)
    callPattern,    \* the pattern given to the last compileMatcher
    callTopic,      \* the topic given to the last matchTopic/validatePublishTopic
    callMatcher,    \* the matcher returned by the last compileMatcher, or
                    \* given to the last matchTopic
    threw,          \* the last call raised
    matched,        \* what the last matchTopic returned
    evicted,        \* firstKey of the last compileMatcher: <<key>> or <<>>
    lastHit,        \* history: <<key>> of the latest cache hit since the
                    \* cache was last empty at construction or clear
    callHit,        \* the last compileMatcher returned at line 10
    cacheRefs,      \* the identity of the object stored in each cache entry,
                    \* in the order of matcherCache
    callRef,        \* the identity of the object the last compileMatcher
                    \* returned, NoRef otherwise
    callSegments,   \* the segments returned by the last splitTopic or given
                    \* to the last joinTopic
    callSize,       \* what the last getMatcherCacheSize returned
    everCached,     \* history, kept in SpecClear only: the patterns stored
                    \* in the cache at some time since the process started
    run             \* the call in progress in SpecSteps: the loop of
                    \* compileMatcher or the recursion of matchSegments,
                    \* one iteration or one call at a time

matcherVars == <<matcherCache, callOp, callPattern, callTopic, callMatcher,
                 threw, matched, evicted, lastHit, callHit, cacheRefs, callRef,
                 callSegments, callSize, everCached, run>>

\* no call in progress
NoRun ==
    [op |-> "none", done |-> TRUE, pattern |-> <<>>, parts |-> <<>>,
     segments |-> <<>>, hasWildcards |-> FALSE, i |-> 0, threw |-> FALSE,
     topic |-> <<>>, topicSegments |-> <<>>, topicIndex |-> 0,
     patternIndex |-> 0, depth |-> 0, result |-> FALSE]

(***************************************************************************)
(* Object identity.  The matchers are objects: the Map stores references   *)
(* and compileMatcher returns one.  An identity is a positive number; the  *)
(* object created at line 41 gets one that no stored object has.           *)
(***************************************************************************)
NoRef == 0

FreshRef(refs) ==
    CHOOSE n \in 1..(Len(refs) + 1) :
        /\ \A k \in 1..Len(refs) : refs[k] # n
        /\ \A m \in 1..(n - 1) : \E k \in 1..Len(refs) : refs[k] = m

\* the identity stored under key
RefOf(cache, refs, key) ==
    refs[CHOOSE k \in 1..Len(cache) : cache[k].key = key]

\* the identities stored after a compileMatcher call with result r: an
\* entry that was there keeps its object, a new entry holds the new object
RefsAfter(cache, refs, r) ==
    [k \in 1..Len(r.cache) |->
        IF MapHas(cache, r.cache[k].key)
        THEN RefOf(cache, refs, r.cache[k].key)
        ELSE FreshRef(refs)]

\* the identity of the object a compileMatcher call with result r returns
ReturnedRef(cache, refs, pattern, r) ==
    IF r.threw THEN NoRef
    ELSE IF r.created THEN FreshRef(refs)
    ELSE RefOf(cache, refs, pattern)

(***************************************************************************)
(* State of the components that the specification describes and whose code *)
(* is not part of the sources (spec.md sections 3 and 4): they are idle in *)
(* the behaviours of the matcher.                                          *)
(***************************************************************************)
VARIABLES
    now,            \* the clock of the host, in milliseconds
    limiter,        \* RateLimiterState {tokens, lastRefillTimestamp,
                    \* capacity, refillRatePerSecond}; tokens in 1/1000 token
    limLog,         \* history: the admission checks made, [at, admitted]
    batchCfg,       \* BatchScheduler configuration {maxBatchSize, batchIntervalMs}
    batch,          \* BatchScheduler {queue, deadline of the flush timer}
    sends,          \* the transport: the batches handed to send, [at, envelopes]
    enqLog,         \* history: the time each envelope was queued, in order
    busCfg,         \* PubSubConfig {validationMode, rateLimit}
    subscriptions,  \* the registry, in registration order
    nextId,         \* the number of Messages created so far
    pub,            \* the record of the last publish
    published,      \* history: the local publishes of all contexts, in order
    wire,           \* the envelopes handed to the transport, in order
    adapters,       \* per context: the SyncAdapter's dedup cache, bucket, stats
    inbox,          \* per context: the messages its local handlers were given
    arrLog          \* per context, history: the arrivals and their outcome

\* the placeholder of a rate limiter that was not constructed
NoLimiter ==
    [tokens |-> 0, lastRefillTimestamp |-> 0, capacity |-> 0,
     refillRatePerSecond |-> 0]

limVars == <<limiter, limLog>>

LimIdle == limiter = NoLimiter /\ limLog = <<>>

\* no flush timer is pending
NoDeadline == -1

batchVars == <<batchCfg, batch, sends, enqLog>>

BatchIdle ==
    /\ batchCfg = [maxBatchSize |-> 0, batchIntervalMs |-> 0]
    /\ batch = [queue |-> <<>>, deadline |-> NoDeadline]
    /\ sends = <<>>
    /\ enqLog = <<>>

\* the record of a bus on which nothing was published yet
NoPublish ==
    [outcome |-> "none", reason |-> "none", topic |-> <<>>, admitted |-> FALSE,
     payloadValid |-> TRUE, transportFault |-> FALSE, id |-> 0,
     invoked |-> <<>>, errors |-> <<>>, transportErrors |-> 0]

dispVars == <<busCfg, subscriptions, nextId, pub>>

DispIdle ==
    /\ busCfg = [validationMode |-> "off", rateLimit |-> "off"]
    /\ subscriptions = <<>>
    /\ nextId = 0
    /\ pub = NoPublish

syncVars == <<published, wire, adapters, inbox, arrLog>>

SyncIdle ==
    /\ published = <<>>
    /\ wire = <<>>
    /\ adapters = <<>>
    /\ inbox = <<>>
    /\ arrLog = <<>>

busVars == <<now, limVars, batchVars, dispVars, syncVars>>

BusIdle == now = 0 /\ LimIdle /\ BatchIdle /\ DispIdle /\ SyncIdle

vars == <<matcherVars, busVars>>

MatcherInit ==
    /\ matcherCache = <<>>
    /\ callOp = "init"
    /\ callPattern = <<>>
    /\ callTopic = <<>>
    /\ callMatcher = NoMatcher
    /\ threw = FALSE
    /\ matched = FALSE
    /\ evicted = <<>>
    /\ lastHit = <<>>
    /\ callHit = FALSE
    /\ cacheRefs = <<>>
    /\ callRef = NoRef
    /\ callSegments = <<>>
    /\ callSize = 0
    /\ everCached = {}
    /\ run = NoRun

Init == MatcherInit /\ BusIdle

\* a call of compileMatcher, the history variable left open
CompileCall(pattern) ==
    LET r == compileMatcher(matcherCache, pattern) IN
    /\ matcherCache' = r.cache
    /\ callOp' = "compileMatcher"
    /\ callPattern' = pattern
    /\ callTopic' = <<>>
    /\ callMatcher' = r.matcher
    /\ threw' = r.threw
    /\ matched' = FALSE
    /\ evicted' = r.firstKey
    /\ lastHit' = IF r.hit THEN <<pattern>> ELSE lastHit
    /\ callHit' = r.hit
    /\ cacheRefs' = RefsAfter(matcherCache, cacheRefs, r)
    /\ callRef' = ReturnedRef(matcherCache, cacheRefs, pattern, r)
    /\ callSegments' = <<>>
    /\ callSize' = 0
    /\ UNCHANGED busVars

CompileMatcher(pattern) ==
    CompileCall(pattern) /\ UNCHANGED <<everCached, run>>

MatchTopic(topic, matcher) ==
    LET r == matchTopicCall(matcherCache, topic, matcher) IN
    /\ matcherCache' = r.cache
    /\ callOp' = "matchTopic"
    /\ callPattern' = <<>>
    /\ callTopic' = topic
    /\ callMatcher' = r.matcher
    /\ threw' = FALSE
    /\ matched' = r.result
    /\ evicted' = <<>>
    /\ callHit' = FALSE
    /\ callRef' = NoRef
    /\ callSegments' = <<>>
    /\ callSize' = 0
    /\ cacheRefs' = [k \in 1..Len(r.cache) |->
                         IF MapHas(matcherCache, r.cache[k].key)
                         THEN RefOf(matcherCache, cacheRefs, r.cache[k].key)
                         ELSE FreshRef(cacheRefs)]
    /\ UNCHANGED <<lastHit, everCached, run>>
    /\ UNCHANGED busVars

ValidatePublishTopic(topic) ==
    /\ callOp' = "validatePublishTopic"
    /\ callPattern' = <<>>
    /\ callTopic' = topic
    /\ callMatcher' = NoMatcher
    /\ threw' = validatePublishTopic(topic)
    /\ matched' = FALSE
    /\ evicted' = <<>>
    /\ callHit' = FALSE
    /\ callRef' = NoRef
    /\ callSegments' = <<>>
    /\ callSize' = 0
    /\ UNCHANGED <<matcherCache, lastHit, cacheRefs, everCached, run>>
    /\ UNCHANGED busVars

ClearMatcherCache ==
    /\ matcherCache' = MapClear(matcherCache)
    /\ callOp' = "clearMatcherCache"
    /\ callPattern' = <<>>
    /\ callTopic' = <<>>
    /\ callMatcher' = NoMatcher
    /\ threw' = FALSE
    /\ matched' = FALSE
    /\ evicted' = <<>>
    /\ lastHit' = <<>>
    /\ callHit' = FALSE
    /\ cacheRefs' = [k \in 1..Len(matcherCache') |->
                         RefOf(matcherCache, cacheRefs, matcherCache'[k].key)]
    /\ callRef' = NoRef
    /\ callSegments' = <<>>
    /\ callSize' = 0
    /\ UNCHANGED <<everCached, run, busVars>>

\* the matchers a caller can hold: the one just returned and, through
\* getCache (line 121), the stored ones
Held ==
    {matcherCache[k].value : k \in 1..Len(matcherCache)}
        \cup (IF callOp = "compileMatcher" /\ ~threw THEN {callMatcher} ELSE {})

(***************************************************************************)
(* Spec: any sequence of calls on the cache.                               *)
(***************************************************************************)
Next ==
    \/ \E pattern \in CachePatterns : CompileMatcher(pattern)
    \/ \E topic \in CacheTopics : \E matcher \in Held : MatchTopic(topic, matcher)
    \/ \E topic \in CacheTopics : ValidatePublishTopic(topic)
    \/ ClearMatcherCache

Spec == Init /\ [][Next]_vars

(***************************************************************************)
(* SpecClear: any sequence of calls on the cache, with the history of the  *)
(* patterns that were ever stored.                                         *)
(***************************************************************************)
CompileRecorded(pattern) ==
    /\ CompileCall(pattern)
    /\ everCached' = everCached
                        \cup {matcherCache'[k].key : k \in 1..Len(matcherCache')}
    /\ run' = run

NextClear ==
    \/ \E pattern \in CachePatterns : CompileRecorded(pattern)
    \/ \E topic \in CacheTopics : \E matcher \in Held : MatchTopic(topic, matcher)
    \/ \E topic \in CacheTopics : ValidatePublishTopic(topic)
    \/ ClearMatcherCache

SpecClear == Init /\ [][NextClear]_vars

(***************************************************************************)
(* SpecExports: any sequence of calls of the exported functions.           *)
(***************************************************************************)
SplitTopic(topic) ==
    /\ callOp' = "splitTopic"
    /\ callPattern' = <<>>
    /\ callTopic' = topic
    /\ callMatcher' = NoMatcher
    /\ threw' = FALSE
    /\ matched' = FALSE
    /\ evicted' = <<>>
    /\ callHit' = FALSE
    /\ callRef' = NoRef
    /\ callSegments' = splitTopic(topic)
    /\ callSize' = 0
    /\ UNCHANGED <<matcherCache, lastHit, cacheRefs, everCached, run>>
    /\ UNCHANGED busVars

JoinTopic(segments) ==
    /\ callOp' = "joinTopic"
    /\ callPattern' = <<>>
    /\ callTopic' = joinTopic(segments)
    /\ callMatcher' = NoMatcher
    /\ threw' = FALSE
    /\ matched' = FALSE
    /\ evicted' = <<>>
    /\ callHit' = FALSE
    /\ callRef' = NoRef
    /\ callSegments' = segments
    /\ callSize' = 0
    /\ UNCHANGED <<matcherCache, lastHit, cacheRefs, everCached, run>>
    /\ UNCHANGED busVars

GetMatcherCacheSize ==
    /\ callOp' = "getMatcherCacheSize"
    /\ callPattern' = <<>>
    /\ callTopic' = <<>>
    /\ callMatcher' = NoMatcher
    /\ threw' = FALSE
    /\ matched' = FALSE
    /\ evicted' = <<>>
    /\ callHit' = FALSE
    /\ callRef' = NoRef
    /\ callSegments' = <<>>
    /\ callSize' = getMatcherCacheSize(matcherCache)
    /\ UNCHANGED <<matcherCache, lastHit, cacheRefs, everCached, run>>
    /\ UNCHANGED busVars

JoinInputs == SeqsUpTo({<<"a">>, <<"b">>}, 2)

NextExports ==
    \/ \E pattern \in CachePatterns : CompileMatcher(pattern)
    \/ \E topic \in CacheTopics : \E matcher \in Held : MatchTopic(topic, matcher)
    \/ \E topic \in CacheTopics : ValidatePublishTopic(topic)
    \/ \E topic \in CacheTopics : SplitTopic(topic)
    \/ \E segments \in JoinInputs : JoinTopic(segments)
    \/ GetMatcherCacheSize
    \/ ClearMatcherCache

SpecExports == Init /\ [][NextExports]_vars

(***************************************************************************)
(* SpecMatch: one pattern compiled in a fresh process and one topic        *)
(* matched against the matcher it returned, or one topic validated.        *)
(***************************************************************************)
NextMatch ==
    \/ /\ callOp = "init"
       /\ \E pattern \in PatternInputs : CompileMatcher(pattern)
    \/ /\ callOp = "compileMatcher"
       /\ ~threw
       /\ \E topic \in TopicInputs : MatchTopic(topic, callMatcher)
    \/ /\ callOp = "init"
       /\ \E topic \in ValidateInputs : ValidatePublishTopic(topic)

SpecMatch == Init /\ [][NextMatch]_vars

(***************************************************************************)
(* Vocabulary of the properties, defined on the strings themselves and     *)
(* not through the operators above.                                        *)
(***************************************************************************)
DotPositions(str) == {k \in 1..Len(str) : str[k] = "."}

NumSegments(str) == Cardinality(DotPositions(str)) + 1

\* the n-th dot-separated piece of str, n in 1..NumSegments(str)
SegmentAt(str, n) ==
    LET dots == DotPositions(str)
        nth(m) == CHOOSE k \in dots : Cardinality({j \in dots : j < k}) = m - 1
        lo == IF n = 1 THEN 0 ELSE nth(n - 1)
        hi == IF n = NumSegments(str) THEN Len(str) + 1 ELSE nth(n)
    IN  SubSeq(str, lo + 1, hi - 1)

HasEmptySegment(str) == \E n \in 1..NumSegments(str) : SegmentAt(str, n) = <<>>

HasChar(str, c) == \E k \in 1..Len(str) : str[k] = c

WildcardFree(str) == ~HasChar(str, "+") /\ ~HasChar(str, "#")

\* '#' occurs in a segment other than the last
MultiBeforeLast(str) ==
    \E n \in 1..(NumSegments(str) - 1) : HasChar(SegmentAt(str, n), "#")

\* the segment is made of one or more characters of [A-Za-z0-9_-]
LiteralSegment(seg) ==
    /\ seg # <<>>
    /\ \A k \in 1..Len(seg) : seg[k] \in SegmentCharClass

\* t has no empty segment, at least as many segments as q, and its leading
\* segments agree with q ('+' in q agrees with any segment)
MatchesPrefix(t, q) ==
    /\ ~HasEmptySegment(t)
    /\ NumSegments(t) >= NumSegments(q)
    /\ \A n \in 1..NumSegments(q) :
           \/ SegmentAt(q, n) = <<"+">>
           \/ SegmentAt(q, n) = SegmentAt(t, n)

\* p is q followed by '.#', q not empty
EndsWithMulti(p) ==
    /\ Len(p) >= 3
    /\ SubSeq(p, Len(p) - 1, Len(p)) = <<".", "#">>

BeforeMulti(p) == SubSeq(p, 1, Len(p) - 2)

Matching == callOp = "matchTopic"
Compiling == callOp = "compileMatcher"
Validating == callOp = "validatePublishTopic"

(***************************************************************************)
(* C1.  For every wildcard-free pattern p that compileMatcher accepts and  *)
(* every topic t, well-formed or not, matchTopic(t, compileMatcher(p)) is  *)
(* true exactly when t equals p.                                           *)
(***************************************************************************)
C1_ExactMatch ==
    (Matching /\ WildcardFree(callMatcher.pattern))
        => (matched <=> callTopic = callMatcher.pattern)

\* 'a.b' matched against the matcher of 'a.b'
C1_Witness ==
    /\ Matching
    /\ callMatcher.pattern = <<"a", ".", "b">>
    /\ callTopic = <<"a", ".", "b">>
    /\ matched

(***************************************************************************)
(* C2.  A '+' segment matches exactly one topic segment: for a pattern     *)
(* without '#', matchTopic succeeds only on topics with as many segments   *)
(* as the pattern; 'a.+.c' matches 'a.b.c', not 'a.c' and not 'a.b.d.c'.   *)
(***************************************************************************)
C2_SingleArity ==
    /\ (Matching /\ ~HasChar(callMatcher.pattern, "#") /\ matched)
           => NumSegments(callTopic) = NumSegments(callMatcher.pattern)
    /\ (Matching /\ callMatcher.pattern = <<"a", ".", "+", ".", "c">>)
           => /\ callTopic = <<"a", ".", "b", ".", "c">> => matched
              /\ callTopic = <<"a", ".", "c">> => ~matched
              /\ callTopic = <<"a", ".", "b", ".", "d", ".", "c">> => ~matched

C2_Witness ==
    /\ Matching
    /\ callMatcher.pattern = <<"a", ".", "+", ".", "c">>
    /\ callTopic = <<"a", ".", "b", ".", "c">>
    /\ matched

(***************************************************************************)
(* C3.  A trailing '#' matches zero or more remaining segments: for a      *)
(* pattern 'q.#', matchTopic is true exactly when the topic has no empty   *)
(* segment, has at least as many segments as q and agrees with q on its    *)
(* leading segments; 'a.#' matches 'a' and 'a.b.c.d' but not 'x.y'.        *)
(***************************************************************************)
C3_MultiBreadth ==
    /\ (Matching /\ EndsWithMulti(callMatcher.pattern))
           => (matched <=>
                   MatchesPrefix(callTopic, BeforeMulti(callMatcher.pattern)))
    /\ (Matching /\ callMatcher.pattern = <<"a", ".", "#">>)
           => /\ callTopic = <<"a">> => matched
              /\ callTopic = <<"a", ".", "b", ".", "c", ".", "d">> => matched
              /\ callTopic = <<"x", ".", "y">> => ~matched

\* zero segments after 'a'
C3_Witness ==
    /\ Matching
    /\ callMatcher.pattern = <<"a", ".", "#">>
    /\ callTopic = <<"a">>
    /\ matched

(***************************************************************************)
(* C4.  The pattern '#' matches every topic that validatePublishTopic      *)
(* accepts.                                                                *)
(***************************************************************************)
C4_GlobalMatchesAll ==
    (Matching /\ callMatcher.pattern = <<"#">>
         /\ ~validatePublishTopic(callTopic))
        => matched

C4_Witness ==
    /\ Matching
    /\ callMatcher.pattern = <<"#">>
    /\ callTopic = <<"a", ".", "b", ".", "c", ".", "d">>
    /\ ~validatePublishTopic(callTopic)
    /\ matched

(***************************************************************************)
(* C5.  compileMatcher raises and returns no matcher for every pattern in  *)
(* which '#' occurs in a segment other than the last and for every pattern *)
(* with an empty segment, such as 'a.#.b', 'a..b', 'a.b.' and '.a.b'.      *)
(***************************************************************************)
C5_PatternLegality ==
    (Compiling /\ (MultiBeforeLast(callPattern) \/ HasEmptySegment(callPattern)))
        => (threw /\ callMatcher = NoMatcher)

C5_Witness ==
    /\ Compiling
    /\ callPattern = <<"a", ".", "#", ".", "b">>
    /\ threw

(***************************************************************************)
(* C6.  Wildcards are complete segments: compileMatcher accepts a pattern  *)
(* only if every segment is exactly '+', exactly '#', or made solely of    *)
(* characters of [A-Za-z0-9_-]; 'a.a+.b' and '*.*.b' raise.                *)
(***************************************************************************)
C6_WholeSegmentWildcards ==
    (Compiling /\ ~threw)
        => \A n \in 1..NumSegments(callPattern) :
               \/ SegmentAt(callPattern, n) = <<"+">>
               \/ SegmentAt(callPattern, n) = <<"#">>
               \/ LiteralSegment(SegmentAt(callPattern, n))

\* '+' inside the longer segment 'a+'
C6_Witness ==
    /\ Compiling
    /\ callPattern = <<"a", ".", "a", "+", ".", "b">>
    /\ threw

(***************************************************************************)
(* C7.  validatePublishTopic raises exactly for the topics that are empty, *)
(* contain '+' or '#' anywhere, contain an empty segment, or contain a     *)
(* segment with a character outside [A-Za-z0-9_-].                         *)
(***************************************************************************)
C7_PublishTopicConcrete ==
    Validating
        => (threw <=>
               \/ callTopic = <<>>
               \/ HasChar(callTopic, "+")
               \/ HasChar(callTopic, "#")
               \/ HasEmptySegment(callTopic)
               \/ \E n \in 1..NumSegments(callTopic) :
                      \E k \in 1..Len(SegmentAt(callTopic, n)) :
                          SegmentAt(callTopic, n)[k] \notin SegmentCharClass)

\* a wildcard as the last segment of a publish topic
C7_Witness ==
    /\ Validating
    /\ callTopic = <<"a", ".", "#">>
    /\ threw

(***************************************************************************)
(* C8.  After any sequence of compileMatcher and clearMatcherCache calls   *)
(* the cache holds at most MAX_CACHE_SIZE entries, also once more distinct *)
(* patterns than that have been compiled.                                  *)
(***************************************************************************)
C8_CacheBounded == Len(matcherCache) <= MAX_CACHE_SIZE

\* an eviction has just made room: more than MAX_CACHE_SIZE distinct
\* patterns were compiled since the cache was last empty
C8_Witness ==
    /\ Compiling
    /\ evicted # <<>>
    /\ Len(matcherCache) = MAX_CACHE_SIZE

(***************************************************************************)
(* C9.  Compiling the same pattern again returns a matcher that matches    *)
(* identically on every topic, whatever happened in between: the matcher   *)
(* compileMatcher returns in any cache state matches as the one compiled   *)
(* from the same pattern in a fresh process.                               *)
(***************************************************************************)
C9_CacheIdempotence ==
    (Compiling /\ ~threw)
        => \A t \in TopicInputs :
               matchTopic(t, callMatcher)
                   = matchTopic(t, compileMatcher(<<>>, callPattern).matcher)

\* the pattern was compiled, served from the cache, evicted, and is now
\* compiled again into the full cache
C9_Witness ==
    /\ Compiling
    /\ ~threw
    /\ evicted # <<>>
    /\ lastHit = <<callPattern>>

(***************************************************************************)
(* C10.  When the cache is full and a pattern that is not cached is        *)
(* compiled, exactly the entry inserted earliest is evicted and the others *)
(* are retained in their order; a cache hit leaves the cache as it is, so  *)
(* it does not postpone the eviction of the entry it hit.                  *)
(***************************************************************************)
Cached(p) == \E k \in 1..Len(matcherCache) : matcherCache[k].key = p

C10_EvictOldest ==
    [][/\ (Compiling' /\ ~threw' /\ ~Cached(callPattern')
              /\ Len(matcherCache) >= MAX_CACHE_SIZE)
          => /\ evicted' = <<matcherCache[1].key>>
             /\ matcherCache' =
                    Append(Tail(matcherCache),
                           [key |-> callPattern', value |-> callMatcher'])
       /\ (Compiling' /\ Cached(callPattern'))
          => matcherCache' = matcherCache]_vars

\* the entry evicted is the one a cache hit was served from most recently
C10_Witness ==
    /\ Compiling
    /\ evicted # <<>>
    /\ lastHit = evicted

(***************************************************************************)
(* C20.  A topic with an empty segment (the empty string, two consecutive  *)
(* dots, a leading or a trailing dot) matches no pattern that              *)
(* compileMatcher accepts, '#' included.                                   *)
(***************************************************************************)
C20_EmptySegmentNeverMatches ==
    (Matching /\ HasEmptySegment(callTopic)) => ~matched

\* 'a.' offered to the matcher of 'a.#'
C20_Witness ==
    /\ Matching
    /\ callMatcher.pattern = <<"a", ".", "#">>
    /\ callTopic = <<"a", ".">>
    /\ ~matched

(***************************************************************************)
(* RateLimiter (spec.md 4.3): a token bucket.  Tokens are counted in       *)
(* thousandths, so that the refill for an elapsed time in milliseconds at  *)
(* a rate per second is the exact product of the two.                      *)
(***************************************************************************)
\* bounds of the limiter behaviours
MaxTime == 2000
MaxChecks == 6
Advances == {500, 1000}
Capacities == {1, 3}
Rates == {0, 1, 2}

Min(a, b) == IF a <= b THEN a ELSE b

NewLimiter(capacity, refillRatePerSecond, at) ==
    [tokens |-> capacity * 1000, lastRefillTimestamp |-> at,
     capacity |-> capacity, refillRatePerSecond |-> refillRatePerSecond]

\* Variant: the refill is not capped at capacity.
RefillUncapped(state, at) ==
    [state EXCEPT
        !.tokens = state.tokens
                     + (at - state.lastRefillTimestamp) * state.refillRatePerSecond,
        !.lastRefillTimestamp = at]

\* refill proportional to the time elapsed since the last check, capped
Refill(state, at) ==
    [state EXCEPT
        !.tokens = Min(state.capacity * 1000,
                       state.tokens
                         + (at - state.lastRefillTimestamp)
                             * state.refillRatePerSecond),
        !.lastRefillTimestamp = at]

\* an admission check: refill, then attempt to consume one token
TryConsume(state, at) ==
    LET refilled == Refill(state, at) IN
    IF refilled.tokens >= 1000
    THEN [admitted |-> TRUE, before |-> refilled.tokens,
          state |-> [refilled EXCEPT !.tokens = refilled.tokens - 1000]]
    ELSE [admitted |-> FALSE, before |-> refilled.tokens, state |-> refilled]

(***************************************************************************)
(* SpecLimiter: one limiter constructed at time 0, checked and aged.       *)
(***************************************************************************)
InitLimiter ==
    /\ MatcherInit
    /\ now = 0
    /\ limiter \in {NewLimiter(c, r, 0) : c \in Capacities, r \in Rates}
    /\ limLog = <<>>
    /\ BatchIdle
    /\ DispIdle
    /\ SyncIdle

\* one admission check at the current time; the log keeps the tokens the
\* check found after its refill and the tokens it left
LimiterCheck ==
    /\ Len(limLog) < MaxChecks
    /\ LET c == TryConsume(limiter, now) IN
       /\ limiter' = c.state
       /\ limLog' = Append(limLog, [at |-> now, admitted |-> c.admitted,
                                    before |-> c.before,
                                    after |-> c.state.tokens])
    /\ UNCHANGED <<now, matcherVars, batchVars, dispVars, syncVars>>

\* the host's clock moves on
LimiterAdvance(d) ==
    /\ now + d <= MaxTime
    /\ now' = now + d
    /\ UNCHANGED <<limVars, matcherVars, batchVars, dispVars, syncVars>>

NextLimiter ==
    \/ LimiterCheck
    \/ \E d \in Advances : LimiterAdvance(d)

SpecLimiter == InitLimiter /\ [][NextLimiter]_vars

(***************************************************************************)
(* C15.  Token-bucket admission.  As stated (capacity 3, refill rate 0:    *)
(* the first three checks at one instant are admitted, the fourth is       *)
(* rejected, and after the time of one refill one more is admitted) the    *)
(* claim does not hold: at rate 0 nothing is ever refilled.                *)
(***************************************************************************)
\* the k-th check of the log follows a rejection by d milliseconds
AfterRejection(k, d) ==
    /\ k >= 2
    /\ k <= Len(limLog)
    /\ ~limLog[k - 1].admitted
    /\ limLog[k].at - limLog[k - 1].at = d

\* the first checks, made at the instant of construction: as many as the
\* capacity are admitted, the next ones are rejected
BurstAtConstruction ==
    \A k \in 1..Len(limLog) :
        limLog[k].at = 0 => (limLog[k].admitted <=> k <= limiter.capacity)

MaxEnqueue == 6
BatchSizes == {2, 3}
BatchIntervals == {0, 1000}

\* a flush hands the queue, as one unit, to the transport and resets
BatchFlush(state, sent, at) ==
    [state |-> [queue |-> <<>>, deadline |-> NoDeadline],
     sent |-> Append(sent, [at |-> at, envelopes |-> state.queue])]

\* Variant: the size trigger fires only above maxBatchSize (> for >=).
BatchEnqueueLate(cfg, state, sent, envelope, at) ==
    IF cfg.batchIntervalMs = 0
    THEN [state |-> state,
          sent |-> Append(sent, [at |-> at, envelopes |-> <<envelope>>])]
    ELSE LET queued ==
                 [queue |-> Append(state.queue, envelope),
                  deadline |-> IF state.queue = <<>>
                               THEN at + cfg.batchIntervalMs
                               ELSE state.deadline]
         IN  IF Len(queued.queue) > cfg.maxBatchSize
             THEN BatchFlush(queued, sent, at)
             ELSE [state |-> queued, sent |-> sent]

\* an outbound envelope: sent at once when batchIntervalMs is 0, otherwise
\* queued (the first unflushed item starts the timer) and flushed when
\* maxBatchSize is reached
BatchEnqueue(cfg, state, sent, envelope, at) ==
    IF cfg.batchIntervalMs = 0
    THEN [state |-> state,
          sent |-> Append(sent, [at |-> at, envelopes |-> <<envelope>>])]
    ELSE LET queued ==
                 [queue |-> Append(state.queue, envelope),
                  deadline |-> IF state.queue = <<>>
                               THEN at + cfg.batchIntervalMs
                               ELSE state.deadline]
         IN  IF Len(queued.queue) >= cfg.maxBatchSize
             THEN BatchFlush(queued, sent, at)
             ELSE [state |-> queued, sent |-> sent]

(***************************************************************************)
(* SpecBatch: envelopes queued over time, the timer firing when due.       *)
(***************************************************************************)
InitBatch ==
    /\ MatcherInit
    /\ now = 0
    /\ LimIdle
    /\ batchCfg \in [maxBatchSize : BatchSizes, batchIntervalMs : BatchIntervals]
    /\ batch = [queue |-> <<>>, deadline |-> NoDeadline]
    /\ sends = <<>>
    /\ enqLog = <<>>
    /\ DispIdle
    /\ SyncIdle

\* a locally published message reaches the scheduler
BatchPublish ==
    /\ Len(enqLog) < MaxEnqueue
    /\ LET r == BatchEnqueue(batchCfg, batch, sends, Len(enqLog) + 1, now) IN
       /\ batch' = r.state
       /\ sends' = r.sent
    /\ enqLog' = Append(enqLog, now)
    /\ UNCHANGED <<now, batchCfg, limVars, matcherVars, dispVars, syncVars>>

\* batchIntervalMs has elapsed since the first unflushed item was queued
BatchTimer ==
    /\ batch.deadline # NoDeadline
    /\ now >= batch.deadline
    /\ LET r == BatchFlush(batch, sends, now) IN
       /\ batch' = r.state
       /\ sends' = r.sent
    /\ UNCHANGED <<now, batchCfg, enqLog, limVars, matcherVars, dispVars, syncVars>>

\* the clock moves on, not past a pending timer
BatchAdvance(d) ==
    /\ now + d <= MaxTime
    /\ batch.deadline # NoDeadline => now + d <= batch.deadline
    /\ now' = now + d
    /\ UNCHANGED <<batchVars, limVars, matcherVars, dispVars, syncVars>>

NextBatch ==
    \/ BatchPublish
    \/ BatchTimer
    \/ \E d \in Advances : BatchAdvance(d)

SpecBatch == InitBatch /\ [][NextBatch]_vars

(***************************************************************************)
(* C16.  Batching: k * maxBatchSize messages published within less than    *)
(* batchIntervalMs produce exactly k transport sends, each carrying        *)
(* maxBatchSize envelopes as one unit; the sends, followed by the queue,   *)
(* are the envelopes in publish order, none twice and none lost.           *)
(***************************************************************************)
RECURSIVE SentEnvelopes(_)
SentEnvelopes(sent) ==
    IF sent = <<>> THEN <<>>
    ELSE sent[1].envelopes \o SentEnvelopes(Tail(sent))

\* all envelopes so far were queued within less than batchIntervalMs
PublishedFast ==
    /\ enqLog # <<>>
    /\ enqLog[Len(enqLog)] - enqLog[1] < batchCfg.batchIntervalMs

C16_Batching ==
    /\ SentEnvelopes(sends) \o batch.queue = [k \in 1..Len(enqLog) |-> k]
    /\ \A b \in 1..Len(sends) : sends[b].envelopes # <<>>
    /\ (PublishedFast /\ Len(enqLog) % batchCfg.maxBatchSize = 0)
           => /\ Len(sends) = Len(enqLog) \div batchCfg.maxBatchSize
              /\ \A b \in 1..Len(sends) :
                     Len(sends[b].envelopes) = batchCfg.maxBatchSize
              /\ batch.queue = <<>>

\* 2 * maxBatchSize envelopes, two sends
C16_Witness ==
    /\ PublishedFast
    /\ batchCfg.maxBatchSize = 3
    /\ Len(enqLog) = 6
    /\ Len(sends) = 2
    /\ sends[2].envelopes = <<4, 5, 6>>

(***************************************************************************)
(* Dispatcher (spec.md 4.2).  The registry is a sequence in registration   *)
(* order; a handler is known by its name and by whether it throws.         *)
(* Patterns are compiled and topics matched by the matcher above.          *)
(* Retention is off (its default), no subscription has a sourceFilter, a   *)
(* replay option or an abort signal.                                       *)
(***************************************************************************)
\* bounds of the dispatcher behaviours
MaxSubs == 2
MaxPublishes == 2

\* 'cart.item.add', 'cart', 'cart.#', 'user.login', 'cart..add', 'cart.#.add'
CartItemAdd ==
    <<"c", "a", "r", "t", ".", "i", "t", "e", "m", ".", "a", "d", "d">>
Cart == <<"c", "a", "r", "t">>
CartAll == <<"c", "a", "r", "t", ".", "#">>
UserLogin == <<"u", "s", "e", "r", ".", "l", "o", "g", "i", "n">>
CartEmptySegment == <<"c", "a", "r", "t", ".", ".", "a", "d", "d">>
CartMultiInside == <<"c", "a", "r", "t", ".", "#", ".", "a", "d", "d">>

BusPatterns == {CartAll, CartItemAdd, CartMultiInside}
BusTopics == {CartItemAdd, Cart, CartEmptySegment}
BusHandlers ==
    {[name |-> "throws", throws |-> TRUE],
     [name |-> "recordsCall", throws |-> FALSE]}
BusConfigs ==
    [validationMode : {"off", "strict"}, rateLimit : {"off", "drop", "throw"}]

\* the default of maxHandlersPerTopic
MaxHandlersPerTopic == 50

\* subscribe: compile the pattern, enforce the ceiling, append
Register(cache, registry, pattern, handler) ==
    LET c == compileMatcher(cache, pattern)
        same == {k \in 1..Len(registry) : registry[k].pattern = pattern}
    IN
    IF c.threw
    THEN [threw |-> TRUE, cache |-> c.cache, registry |-> registry]
    ELSE IF Cardinality(same) >= MaxHandlersPerTopic
    THEN [threw |-> TRUE, cache |-> c.cache, registry |-> registry]
    ELSE [threw |-> FALSE, cache |-> c.cache,
          registry |-> Append(registry, [pattern |-> pattern,
                                         matcher |-> c.matcher,
                                         handler |-> handler])]

\* Variant: a throwing handler ends the dispatch (no isolating wrapper).
RECURSIVE DeliverUnisolated(_, _, _, _, _)
DeliverUnisolated(registry, k, topic, invoked, errors) ==
    IF k > Len(registry)
    THEN [invoked |-> invoked, errors |-> errors, escaped |-> FALSE]
    ELSE IF ~matchTopic(topic, registry[k].matcher)
    THEN DeliverUnisolated(registry, k + 1, topic, invoked, errors)
    ELSE IF registry[k].handler.throws
    THEN [invoked |-> Append(invoked, k), errors |-> errors, escaped |-> TRUE]
    ELSE DeliverUnisolated(registry, k + 1, topic, Append(invoked, k), errors)

\* Variant: the subscriptions with a wildcard-free pattern are served first.
DeliverExactFirst(registry, k, topic, invoked, errors) ==
    LET matching == {j \in 1..Len(registry) :
                         matchTopic(topic, registry[j].matcher)}
        exact == {j \in matching : ~registry[j].matcher.hasWildcards}
        Ordered(set) == SelectSeq([j \in 1..Len(registry) |-> j],
                                  LAMBDA j : j \in set)
        order == Ordered(exact) \o Ordered(matching \ exact)
    IN  [invoked |-> order,
         errors |-> SelectSeq(order, LAMBDA j : registry[j].handler.throws),
         escaped |-> FALSE]

\* The delivery loop from entry k on: every matching handler is invoked in
\* an isolating wrapper, a synchronous throw is caught and reported through
\* the diagnostics hook (a handler-error event naming the handler's index).
RECURSIVE Deliver(_, _, _, _, _)
Deliver(registry, k, topic, invoked, errors) ==
    IF k > Len(registry)
    THEN [invoked |-> invoked, errors |-> errors, escaped |-> FALSE]
    ELSE IF ~matchTopic(topic, registry[k].matcher)
    THEN Deliver(registry, k + 1, topic, invoked, errors)
    ELSE Deliver(registry, k + 1, topic, Append(invoked, k),
                 IF registry[k].handler.throws
                 THEN Append(errors, k) ELSE errors)

\* Variant: a failing send of the adapter's publish hook reaches the caller.
NotifyHookUnguarded(transportFault) ==
    [escaped |-> transportFault, transportErrors |-> 0]

\* The publish notification of an attached adapter: a failing transport is
\* reported through the adapter's error callback, not to the publisher.
NotifyHook(transportFault) ==
    [escaped |-> FALSE, transportErrors |-> IF transportFault THEN 1 ELSE 0]

\* publish(topic, payload, options): the record of the call, the limiter
\* and the id counter it leaves
publish(cfg, registry, bucket, ids, topic, payloadValid, transportFault, at) ==
    LET base == [NoPublish EXCEPT !.topic = topic,
                                  !.payloadValid = payloadValid,
                                  !.transportFault = transportFault]
        check == IF cfg.rateLimit = "off"
                 THEN [admitted |-> TRUE, state |-> bucket]
                 ELSE TryConsume(bucket, at)
    IN
    IF validatePublishTopic(topic)
    THEN [pub |-> [base EXCEPT !.outcome = "raised", !.reason = "topic"],
          bucket |-> bucket, ids |-> ids]
    ELSE IF cfg.validationMode = "strict" /\ ~payloadValid
    THEN [pub |-> [base EXCEPT !.outcome = "raised", !.reason = "schema"],
          bucket |-> bucket, ids |-> ids]
    ELSE IF ~check.admitted
    THEN [pub |-> IF cfg.rateLimit = "throw"
                  THEN [base EXCEPT !.outcome = "raised",
                                    !.reason = "rateLimit"]
                  ELSE [base EXCEPT !.outcome = "dropped",
                                    !.reason = "rateLimit"],
          bucket |-> check.state, ids |-> ids]
    ELSE LET d == Deliver(registry, 1, topic, <<>>, <<>>)
             h == NotifyHook(transportFault)
             done == [base EXCEPT !.admitted = TRUE, !.id = ids + 1,
                                  !.invoked = d.invoked, !.errors = d.errors]
         IN  [pub |-> IF d.escaped
                      THEN [done EXCEPT !.outcome = "raised",
                                        !.reason = "handler"]
                      ELSE IF h.escaped
                      THEN [done EXCEPT !.outcome = "raised",
                                        !.reason = "transport"]
                      ELSE [done EXCEPT !.outcome = "returned",
                                        !.transportErrors = h.transportErrors],
              bucket |-> check.state, ids |-> ids + 1]

(***************************************************************************)
(* SpecBus: one bus, created with some configuration, on which handlers    *)
(* are subscribed and unsubscribed and messages are published.             *)
(***************************************************************************)
InitBus ==
    /\ MatcherInit
    /\ now = 0
    /\ BatchIdle
    /\ busCfg \in BusConfigs
    /\ limiter = (IF busCfg.rateLimit = "off" THEN NoLimiter
                                              ELSE NewLimiter(1, 1, 0))
    /\ limLog = <<>>
    /\ subscriptions = <<>>
    /\ nextId = 0
    /\ pub = NoPublish
    /\ SyncIdle

Subscribe(pattern, handler) ==
    /\ Len(subscriptions) < MaxSubs
    /\ LET r == Register(matcherCache, subscriptions, pattern, handler) IN
       /\ matcherCache' = r.cache
       /\ subscriptions' = r.registry
    /\ cacheRefs' = RefsAfter(matcherCache, cacheRefs,
                              compileMatcher(matcherCache, pattern))
    /\ pub' = NoPublish
    /\ UNCHANGED <<callOp, callPattern, callTopic, callMatcher, threw, matched,
                   evicted, lastHit, callHit, callRef, callSegments, callSize,
                   everCached, run, now, limVars, batchVars, busCfg, nextId,
                   syncVars>>

\* the Unsubscribe function returned for entry k
Unsubscribe(k) ==
    /\ k \in 1..Len(subscriptions)
    /\ subscriptions' = [j \in 1..(Len(subscriptions) - 1) |->
                            IF j < k THEN subscriptions[j]
                                     ELSE subscriptions[j + 1]]
    /\ pub' = NoPublish
    /\ UNCHANGED <<matcherVars, now, limVars, batchVars, busCfg, nextId,
                   syncVars>>

Publish(topic, payloadValid, transportFault) ==
    /\ nextId < MaxPublishes
    /\ LET r == publish(busCfg, subscriptions, limiter, nextId, topic,
                        payloadValid, transportFault, now) IN
       /\ pub' = r.pub
       /\ limiter' = r.bucket
       /\ nextId' = r.ids
    /\ UNCHANGED <<matcherVars, now, limLog, batchVars, busCfg, subscriptions,
                   syncVars>>

NextBus ==
    \/ \E pattern \in BusPatterns : \E handler \in BusHandlers :
           Subscribe(pattern, handler)
    \/ \E k \in 1..MaxSubs : Unsubscribe(k)
    \/ \E topic \in BusTopics : \E payloadValid \in BOOLEAN :
           \E transportFault \in BOOLEAN :
               Publish(topic, payloadValid, transportFault)

SpecBus == InitBus /\ [][NextBus]_vars

\* the last publish got as far as the delivery loop
Delivered == pub.admitted

\* the registry entries whose pattern matches the published topic
MatchingSubs ==
    {k \in 1..Len(subscriptions) :
         matchTopic(pub.topic, subscriptions[k].matcher)}

\* how many times entry k was invoked for the last publish
Invocations(k) == Cardinality({i \in 1..Len(pub.invoked) : pub.invoked[i] = k})

\* a handler matching the last publish throws
SomeHandlerThrows == \E k \in MatchingSubs : subscriptions[k].handler.throws

(***************************************************************************)
(* C11.  Handler isolation: when a handler throws synchronously during     *)
(* publish, every other handler whose subscription matches the topic is    *)
(* still invoked exactly once for that message, the error is reported      *)
(* through the diagnostics hook (one handler-error event per throwing      *)
(* handler), and publish returns normally.                                 *)
(***************************************************************************)
C11_HandlerIsolation ==
    (Delivered /\ SomeHandlerThrows)
        => /\ \A k \in MatchingSubs : Invocations(k) = 1
           /\ \A k \in MatchingSubs :
                  subscriptions[k].handler.throws
                      <=> Cardinality({i \in 1..Len(pub.errors) :
                                           pub.errors[i] = k}) = 1
           /\ pub.outcome = "returned"

\* handlers [throws, recordsCall] on the same pattern, one publish: the
\* second was invoked although the first threw
C11_Witness ==
    /\ Delivered
    /\ Len(subscriptions) = 2
    /\ subscriptions[1].pattern = subscriptions[2].pattern
    /\ subscriptions[1].handler.name = "throws"
    /\ subscriptions[2].handler.name = "recordsCall"
    /\ pub.invoked = <<1, 2>>
    /\ pub.errors = <<1>>
    /\ pub.outcome = "returned"

C13_Original ==
    pub.outcome = "raised"
        => (pub.topic = <<>> \/ HasEmptySegment(pub.topic)
                \/ ~WildcardFree(pub.topic))

(***************************************************************************)
(* C13, amended.  An exception leaves publish only for an invalid topic,   *)
(* for a payload that fails its schema under validationMode 'strict', or   *)
(* for a rate-limit rejection under onExceeded 'throw'; no handler fault   *)
(* and no transport fault makes a publish that was admitted raise.         *)
(***************************************************************************)
C13_PublishRaises ==
    /\ pub.outcome = "raised"
           => \/ pub.topic = <<>> \/ HasEmptySegment(pub.topic)
                  \/ ~WildcardFree(pub.topic)
              \/ busCfg.validationMode = "strict" /\ ~pub.payloadValid
              \/ busCfg.rateLimit = "throw" /\ ~pub.admitted
    /\ Delivered => pub.outcome = "returned"

\* an admitted publish met a throwing handler and a failing transport and
\* returned; the fault is on the adapter's error callback
C13_Witness ==
    /\ Delivered
    /\ SomeHandlerThrows
    /\ pub.transportFault
    /\ pub.transportErrors = 1
    /\ pub.outcome = "returned"

(***************************************************************************)
(* SyncAdapter (spec.md 4.5, 4.9).  Every context has a bus with one       *)
(* subscription to 'cart.#' and an attached adapter; the adapters share    *)
(* one transport, which hands an envelope to the contexts other than its   *)
(* sender, any number of times, at any later time.  batchIntervalMs is 0,  *)
(* so every envelope is sent at once.  An inbound envelope is checked in   *)
(* the order of 4.9: origin, dedup, rate limit.                            *)
(***************************************************************************)
\* bounds of the cross-context behaviours
MaxEnvelopes == 2
MaxArrivals == 3

Contexts == {"A", "B"}
SyncTopics == {CartItemAdd, UserLogin}
Payloads == {"X1"}
ExpectedOrigin == "https://app.example.com"
ForeignOrigin == "https://evil.example.com"
SyncAdvances == {1000}

\* SyncAdapter configuration, scaled: a window of one second, a cache of one
\* id, an inbound bucket of one token refilled once a second
DedupeWindowMs == 1000
DedupeCacheSize == 1
InboundBurst == 1
InboundPerSecond == 1

\* the matcher of every context's subscription
CartAllMatcher == compileMatcher(<<>>, CartAll).matcher

NewAdapter(at) ==
    [dedup |-> <<>>,
     bucket |-> NewLimiter(InboundBurst, InboundPerSecond, at),
     stats |-> [originBlocked |-> 0, messagesDeduplicated |-> 0,
                messagesRateLimited |-> 0, messagesReceived |-> 0]]

\* EnvelopeCodec: the wire form of a Message
Encode(message, clientId, sequence) ==
    [messageId |-> message.id, clientId |-> clientId, sequence |-> sequence,
     topic |-> message.topic, payload |-> message.payload,
     origin |-> ExpectedOrigin]

\* decoding discards the protocol-only fields
Decode(envelope) ==
    [id |-> envelope.messageId, topic |-> envelope.topic,
     payload |-> envelope.payload]

\* Variant: the identity of an envelope is what it carries, not its id.
DedupKeyContent(envelope) == <<0, envelope.topic, envelope.payload>>

\* the identity the DedupCache records
DedupKey(envelope) == <<envelope.messageId, <<>>, "">>

\* Variant: an entry is never considered absent for its age.
DedupCheckNoExpiry(cache, key, at) ==
    IF \E k \in 1..Len(cache) : cache[k].key = key
    THEN [duplicate |-> TRUE, cache |-> cache]
    ELSE LET added == Append(cache, [key |-> key, firstSeen |-> at])
         IN  [duplicate |-> FALSE,
              cache |-> IF Len(added) > DedupeCacheSize THEN Tail(added)
                                                        ELSE added]

\* DedupCache: present and not older than the window is a duplicate;
\* otherwise (key -> now) is recorded, the oldest entry leaving when the
\* capacity is exceeded
DedupCheck(cache, key, at) ==
    IF \E k \in 1..Len(cache) :
           cache[k].key = key /\ at - cache[k].firstSeen <= DedupeWindowMs
    THEN [duplicate |-> TRUE, cache |-> cache]
    ELSE LET others == SelectSeq(cache, LAMBDA e : e.key # key)
             added == Append(others, [key |-> key, firstSeen |-> at])
         IN  [duplicate |-> FALSE,
              cache |-> IF Len(added) > DedupeCacheSize THEN Tail(added)
                                                        ELSE added]

\* the three checks of an inbound envelope, the first failing one counted
Receive(adapter, envelope, at) ==
    LET d == DedupCheck(adapter.dedup, DedupKey(envelope), at)
        r == TryConsume(adapter.bucket, at)
        Count(field) ==
            [adapter.stats EXCEPT ![field] = adapter.stats[field] + 1]
    IN
    IF envelope.origin # ExpectedOrigin
    THEN [outcome |-> "originBlocked",
          adapter |-> [adapter EXCEPT !.stats = Count("originBlocked")]]
    ELSE IF d.duplicate
    THEN [outcome |-> "deduplicated",
          adapter |-> [adapter EXCEPT
                           !.stats = Count("messagesDeduplicated")]]
    ELSE IF ~r.admitted
    THEN [outcome |-> "rateLimited",
          adapter |-> [dedup |-> d.cache, bucket |-> r.state,
                       stats |-> Count("messagesRateLimited")]]
    ELSE [outcome |-> "delivered",
          adapter |-> [dedup |-> d.cache, bucket |-> r.state,
                       stats |-> Count("messagesReceived")]]

\* the handlers of a context given a message: its one subscription's, if
\* the pattern matches
Handle(box, message, via) ==
    IF matchTopic(message.topic, CartAllMatcher)
    THEN Append(box, [id |-> message.id, topic |-> message.topic,
                      payload |-> message.payload, via |-> via])
    ELSE box

\* Variant: an inbound message goes through publish, whose hook sends it.
DeliverInboundResend(box, sent, envelope, clientId) ==
    [inbox |-> Handle(box, Decode(envelope), "inbound"),
     wire |-> Append(sent, Encode(Decode(envelope), clientId, Len(sent) + 1))]

\* a survivor is decoded and given to the local handlers, nothing is sent
DeliverInbound(box, sent, envelope, clientId) ==
    [inbox |-> Handle(box, Decode(envelope), "inbound"), wire |-> sent]

(***************************************************************************)
(* SpecSync: contexts A and B publish; the transport delivers, repeats     *)
(* and carries envelopes of a foreign origin; time passes.                 *)
(***************************************************************************)
InitSync ==
    /\ MatcherInit
    /\ now = 0
    /\ LimIdle
    /\ BatchIdle
    /\ DispIdle
    /\ published = <<>>
    /\ wire = <<>>
    /\ adapters = [c \in Contexts |-> NewAdapter(0)]
    /\ inbox = [c \in Contexts |-> <<>>]
    /\ arrLog = [c \in Contexts |-> <<>>]

\* context c publishes: a Message with a fresh id, delivered locally, then
\* encoded and sent by the adapter's publish hook
SyncPublish(c, topic, payload) ==
    /\ nextId < MaxEnvelopes
    /\ LET message == [id |-> nextId + 1, topic |-> topic, payload |-> payload]
       IN  /\ nextId' = nextId + 1
           /\ published' = Append(published, [message EXCEPT !.id = nextId + 1]
                                                 @@ [ctx |-> c])
           /\ inbox' = [inbox EXCEPT ![c] = Handle(@, message, "local")]
           /\ wire' = Append(wire, Encode(message, c, Len(wire) + 1))
    /\ UNCHANGED <<matcherVars, now, limVars, batchVars, busCfg, subscriptions,
                   pub, adapters, arrLog>>

\* what the transport may hand to context c: an envelope another context
\* sent, or one of the same content from a foreign origin
Inbound(c) ==
    LET sent == {wire[i] : i \in 1..Len(wire)}
        others == {e \in sent : e.clientId # c}
    IN  others \cup {[e EXCEPT !.origin = ForeignOrigin] : e \in others}

Arrivals == Len(arrLog["A"]) + Len(arrLog["B"])

\* an envelope arrives at context c
SyncReceive(c, envelope) ==
    /\ Arrivals < MaxArrivals
    /\ envelope \in Inbound(c)
    /\ LET r == Receive(adapters[c], envelope, now)
           d == DeliverInbound(inbox[c], wire, envelope, c)
       IN  /\ adapters' = [adapters EXCEPT ![c] = r.adapter]
           /\ arrLog' = [arrLog EXCEPT ![c] =
                             Append(@, [messageId |-> envelope.messageId,
                                        topic |-> envelope.topic,
                                        payload |-> envelope.payload,
                                        origin |-> envelope.origin,
                                        at |-> now,
                                        outcome |-> r.outcome])]
           /\ inbox' = [inbox EXCEPT ![c] = IF r.outcome = "delivered"
                                            THEN d.inbox ELSE @]
           /\ wire' = IF r.outcome = "delivered" THEN d.wire ELSE wire
    /\ UNCHANGED <<matcherVars, now, limVars, batchVars, dispVars, published>>

SyncAdvance(d) ==
    /\ now + d <= MaxTime
    /\ now' = now + d
    /\ UNCHANGED <<matcherVars, limVars, batchVars, dispVars, syncVars>>

NextSync ==
    \/ \E c \in Contexts : \E topic \in SyncTopics : \E payload \in Payloads :
           SyncPublish(c, topic, payload)
    \/ \E c \in Contexts : \E i \in 1..MaxEnvelopes : \E foreign \in BOOLEAN :
           /\ i <= Len(wire)
           /\ SyncReceive(c, IF foreign
                             THEN [wire[i] EXCEPT !.origin = ForeignOrigin]
                             ELSE wire[i])
    \/ \E d \in SyncAdvances : SyncAdvance(d)

SpecSync == InitSync /\ [][NextSync]_vars

\* the arrivals at context c that passed origin validation
Screened(c) ==
    {j \in 1..Len(arrLog[c]) : arrLog[c][j].origin = ExpectedOrigin}

\* the arrivals whose id the DedupCache recorded
Recorded(c) ==
    {j \in Screened(c) : arrLog[c][j].outcome \in {"delivered", "rateLimited"}}

\* arrival j at c repeats the id of arrival i
Repeats(c, i, j) ==
    /\ i < j
    /\ arrLog[c][i].messageId = arrLog[c][j].messageId

\* arrival j comes within the dedup window of arrival i
WithinWindow(c, i, j) == arrLog[c][j].at - arrLog[c][i].at <= DedupeWindowMs

\* the first and the second arrival of an id at c
FirstAndSecond(c, i, j) ==
    /\ i \in Screened(c) /\ j \in Screened(c)
    /\ Repeats(c, i, j)
    /\ \A k \in Screened(c) :
           (k # i /\ k < j) => arrLog[c][k].messageId # arrLog[c][i].messageId

\* other ids recorded between arrivals i and j
RecordedBetween(c, i, j) ==
    {k \in Recorded(c) :
         i < k /\ k < j /\ arrLog[c][k].messageId # arrLog[c][i].messageId}

InboundIds(c) ==
    LET given == SelectSeq(inbox[c], LAMBDA m : m.via = "inbound")
    IN  [k \in 1..Len(given) |-> given[k].id]

\* the arrivals at c that survived the three checks, on a subscribed topic
SurvivorIds(c) ==
    LET passed == SelectSeq(arrLog[c],
                            LAMBDA a : /\ a.outcome = "delivered"
                                       /\ MatchesPrefix(a.topic, BeforeMulti(CartAll)))
    IN  [k \in 1..Len(passed) |-> passed[k].messageId]

(***************************************************************************)
(* C17.  No echo: a message a context receives from another context is     *)
(* given to its local handlers exactly once and is never re-encoded or     *)
(* re-sent by the receiving adapter: the transport carries one envelope    *)
(* per local publish, from the publishing context, and no context is ever  *)
(* handed a message it published itself.                                   *)
(***************************************************************************)
C17_NoEcho ==
    /\ Len(wire) = Len(published)
    /\ \A i \in 1..Len(wire) :
           /\ wire[i].messageId = published[i].id
           /\ wire[i].clientId = published[i].ctx
    /\ \A c \in Contexts :
           /\ InboundIds(c) = SurvivorIds(c)
           /\ \A j \in 1..Len(arrLog[c]) : \A i \in 1..Len(published) :
                  published[i].id = arrLog[c][j].messageId
                      => published[i].ctx # c

\* A published 'cart.item.add' with payload X1; B, subscribed to 'cart.#',
\* was given exactly one message, and nothing came back to A
C17_Witness ==
    /\ Len(published) = 1
    /\ published[1].ctx = "A"
    /\ published[1].topic = CartItemAdd
    /\ published[1].payload = "X1"
    /\ Len(inbox["B"]) = 1
    /\ inbox["B"][1].via = "inbound"
    /\ inbox["B"][1].payload = "X1"
    /\ arrLog["A"] = <<>>
    /\ Len(inbox["A"]) = 1
    /\ inbox["A"][1].via = "local"
    /\ Len(wire) = 1

\* publish j repeats the topic and the payload of publish i, by the same
\* context, with no publish of that context in between
SamePublishTwice(i, j) ==
    /\ i < j
    /\ published[i].ctx = published[j].ctx
    /\ published[i].topic = published[j].topic
    /\ published[i].payload = published[j].payload
    /\ \A k \in 1..Len(published) :
           (i < k /\ k < j) => published[k].ctx # published[i].ctx

\* both publishes were delivered at c, the second within the dedup window
\* of the first
BothDelivered(c, i, j) ==
    \E a, b \in Screened(c) :
        /\ a < b
        /\ WithinWindow(c, a, b)
        /\ arrLog[c][a].messageId = published[i].id
        /\ arrLog[c][b].messageId = published[j].id
        /\ arrLog[c][a].outcome = "delivered"
        /\ arrLog[c][b].outcome = "delivered"

Pieces(str) == [n \in 1..NumSegments(str) |-> SegmentAt(str, n)]

\* p with its n-th segment, a literal, replaced by '+'
WithSingleAt(p, n) ==
    joinTopic([k \in 1..NumSegments(p) |->
                  IF k = n THEN <<"+">> ELSE SegmentAt(p, k)])

\* p cut before its n-th segment, '#' put there
CutWithMulti(p, n) == joinTopic(Append(SubSeq(Pieces(p), 1, n - 1), <<"#">>))

Generalisations(p) ==
    {WithSingleAt(p, n) : n \in {k \in 1..NumSegments(p) :
                                     LiteralSegment(SegmentAt(p, k))}}
        \cup {CutWithMulti(p, n) : n \in 1..NumSegments(p)}

\* topic t is matched by pattern g, compiled in a fresh process
MatchedBy(t, g) ==
    LET c == compileMatcher(<<>>, g) IN ~c.threw /\ matchTopic(t, c.matcher)

(***************************************************************************)
(* C21.  Generalising a pattern never loses matches: every topic matched   *)
(* by a pattern p is also matched by any pattern obtained from p by        *)
(* replacing a literal segment with '+', or by cutting p at a segment      *)
(* boundary and putting '#' there; 'cart.item.add' is matched by           *)
(* 'cart.item.add', 'cart.item.+', 'cart.+.add', 'cart.#' and '#'.         *)
(***************************************************************************)
C21_GeneralisationKeepsMatches ==
    /\ (Matching /\ matched)
           => \A g \in Generalisations(callMatcher.pattern) :
                  MatchedBy(callTopic, g)
    /\ \A g \in {CartItemAdd, CartAll, <<"#">>,
                 WithSingleAt(CartItemAdd, 3), WithSingleAt(CartItemAdd, 2)} :
           MatchedBy(CartItemAdd, g)

\* 'a.b.a' matched 'a.b.a'; its generalisations are 'a.b.+', 'a.+.a',
\* '+.b.a', 'a.b.#', 'a.#' and '#'
C21_Witness ==
    /\ Matching
    /\ matched
    /\ callMatcher.pattern = <<"a", ".", "b", ".", "a">>
    /\ callTopic = <<"a", ".", "b", ".", "a">>
    /\ Generalisations(callMatcher.pattern)
           = {<<"a", ".", "b", ".", "+">>, <<"a", ".", "+", ".", "a">>,
              <<"+", ".", "b", ".", "a">>, <<"a", ".", "b", ".", "#">>,
              <<"a", ".", "#">>, <<"#">>}

(***************************************************************************)
(* C22.  While a pattern is in the cache, compileMatcher returns the very  *)
(* same matcher object that was stored for it, and that call changes       *)
(* neither the set of cached entries nor their eviction order.             *)
(***************************************************************************)
C22_HitReturnsStoredObject ==
    [][(Compiling' /\ Cached(callPattern'))
          => /\ ~threw'
             /\ callRef' = RefOf(matcherCache, cacheRefs, callPattern')
             /\ callMatcher' = MapGet(matcherCache, callPattern')[1]
             /\ matcherCache' = matcherCache
             /\ cacheRefs' = cacheRefs]_vars

\* a hit on an entry that is neither the oldest nor the newest: the object
\* returned is the one stored second
C22_Witness ==
    /\ Compiling
    /\ callHit
    /\ Len(matcherCache) = MAX_CACHE_SIZE
    /\ matcherCache[2].key = callPattern
    /\ callRef = cacheRefs[2]
    /\ callRef # cacheRefs[1]
    /\ callRef # cacheRefs[3]

(***************************************************************************)
(* C23.  The cache is lazily populated and explicitly clearable: it is     *)
(* empty until the first successful compileMatcher call, clearMatcherCache *)
(* leaves it with size 0 from any state, and compiling a previously cached *)
(* pattern after a clear succeeds again and brings the size to exactly 1.  *)
(***************************************************************************)
C23_LazyAndClearable ==
    /\ [](everCached = {} => Len(matcherCache) = 0)
    /\ [][/\ (Len(matcherCache) = 0 /\ Len(matcherCache') # 0)
                 => (Compiling' /\ ~threw')
          /\ (callOp' = "clearMatcherCache") => Len(matcherCache') = 0
          /\ (/\ callOp = "clearMatcherCache"
              /\ Compiling'
              /\ callPattern' \in everCached)
                 => /\ ~threw'
                    /\ Len(matcherCache') = 1
                    /\ matcherCache'[1].key = callPattern']_vars

\* the cache was filled, cleared, and a pattern that had been evicted
\* before the clear is the one entry again
C23_Witness ==
    /\ Compiling
    /\ ~threw
    /\ Len(matcherCache) = 1
    /\ Cardinality(everCached) > MAX_CACHE_SIZE
    /\ callPattern \in everCached
    /\ ~callHit

(***************************************************************************)
(* matchTopic under JavaScript's dynamic typing (lines 53-63): nothing     *)
(* checks that topic is a string and matcher a matcher object.  A value is *)
(* a string, a matcher object (with its identity) or undefined.            *)
(***************************************************************************)
JSString(str) ==
    [type |-> "string", string |-> str, object |-> NoMatcher, ref |-> NoRef]

JSObject(matcher, ref) ==
    [type |-> "object", string |-> <<>>, object |-> matcher, ref |-> ref]

JSUndefined ==
    [type |-> "undefined", string |-> <<>>, object |-> NoMatcher, ref |-> NoRef]

\* value.hasWildcards as line 54 uses it: a string has no such property,
\* and undefined is falsy
HasWildcardsOf(value) ==
    IF value.type = "object" THEN value.object.hasWildcards ELSE FALSE

\* value.pattern (line 55): undefined on a string
PatternOf(value) ==
    IF value.type = "object" THEN JSString(value.object.pattern)
                             ELSE JSUndefined

\* a === b
StrictEquals(a, b) ==
    IF a.type # b.type THEN FALSE
    ELSE IF a.type = "string" THEN a.string = b.string
    ELSE IF a.type = "object" THEN a.ref = b.ref
    ELSE TRUE

\* Variant: the arguments are accepted in either order.
matchTopicDynamicEitherOrder(topic, matcher) ==
    IF topic.type = "object" /\ matcher.type = "string"
    THEN [threw |-> FALSE, result |-> matchTopic(matcher.string, topic.object)]
    ELSE IF ~HasWildcardsOf(matcher)
    THEN [threw |-> FALSE, result |-> StrictEquals(topic, PatternOf(matcher))]
    ELSE IF topic.type # "string"
    THEN [threw |-> TRUE, result |-> FALSE]
    ELSE [threw |-> FALSE, result |-> matchTopic(topic.string, matcher.object)]

\* matchTopic(topic, matcher) on any two values: what it returns, or that
\* it raises (topic.split is not a function, line 57 through line 110)
matchTopicDynamic(topic, matcher) ==
    IF ~HasWildcardsOf(matcher)
    THEN [threw |-> FALSE, result |-> StrictEquals(topic, PatternOf(matcher))]
    ELSE IF topic.type # "string"
    THEN [threw |-> TRUE, result |-> FALSE]
    ELSE [threw |-> FALSE, result |-> matchTopic(topic.string, matcher.object)]

(***************************************************************************)
(* SpecGuide: one pattern compiled in a fresh process, then one matchTopic *)
(* call, written as the code declares it, matchTopic(topic, matcher), or   *)
(* as the guide's Pattern Testing section writes it,                       *)
(* matchTopic(matcher, topic).                                             *)
(***************************************************************************)
\* 'cart.+.add', 'cart.item.remove'
CartAnyAdd == <<"c", "a", "r", "t", ".", "+", ".", "a", "d", "d">>
CartItemRemove ==
    <<"c", "a", "r", "t", ".", "i", "t", "e", "m", ".",
      "r", "e", "m", "o", "v", "e">>

GuidePatterns == PatternInputs \cup {CartAnyAdd, CartAll, CartItemAdd}
GuideTopics == ExampleTopics \cup {CartItemAdd, CartItemRemove, UserLogin}

\* matchTopic(callMatcher, topic): the matcher first, the topic second
MatchTopicGuideOrder(topic) ==
    LET r == matchTopicDynamic(JSObject(callMatcher, callRef), JSString(topic))
    IN
    /\ callOp' = "matchTopic(matcher, topic)"
    /\ callPattern' = <<>>
    /\ callTopic' = topic
    /\ callMatcher' = callMatcher
    /\ threw' = r.threw
    /\ matched' = r.result
    /\ evicted' = <<>>
    /\ callHit' = FALSE
    /\ callRef' = NoRef
    /\ callSegments' = <<>>
    /\ callSize' = 0
    /\ UNCHANGED <<matcherCache, lastHit, cacheRefs, everCached, run>>
    /\ UNCHANGED busVars

NextGuide ==
    \/ /\ callOp = "init"
       /\ \E pattern \in GuidePatterns : CompileMatcher(pattern)
    \/ /\ callOp = "compileMatcher"
       /\ ~threw
       /\ \E topic \in GuideTopics : MatchTopic(topic, callMatcher)
    \/ /\ callOp = "compileMatcher"
       /\ ~threw
       /\ \E topic \in GuideTopics : MatchTopicGuideOrder(topic)

SpecGuide == Init /\ [][NextGuide]_vars

\* the last call was matchTopic with the arguments in the guide's order
MatchingGuideOrder == callOp = "matchTopic(matcher, topic)"

\* the last call was about pattern p and topic t
About(p, t) == callMatcher.pattern = p /\ callTopic = t

C25_RaiseLeavesCache ==
    /\ []((Compiling /\ threw) => ~Cached(callPattern))
    /\ [][/\ (Compiling' /\ threw')
                 => /\ matcherCache' = matcherCache
                    /\ cacheRefs' = cacheRefs
          /\ (Compiling /\ threw /\ Compiling' /\ callPattern' = callPattern)
                 => threw']_vars

\* 'a.#.b' raised on a full cache, which still holds its entries
C25_Witness ==
    /\ Compiling
    /\ threw
    /\ callPattern = <<"a", ".", "#", ".", "b">>
    /\ Len(matcherCache) = MAX_CACHE_SIZE
    /\ lastHit # <<>>

(***************************************************************************)
(* C26.  validatePublishTopic(t) returns normally exactly when             *)
(* compileMatcher(t) succeeds and yields a matcher with hasWildcards =     *)
(* false: every valid publish topic can be subscribed to exactly and       *)
(* matches itself.                                                         *)
(***************************************************************************)
C26_PublishTopicsAreExactPatterns ==
    Validating
        => LET c == compileMatcher(<<>>, callTopic) IN
           /\ ~threw <=> (~c.threw /\ ~c.matcher.hasWildcards)
           /\ ~threw => matchTopic(callTopic, c.matcher)

\* 'a.b' is a valid publish topic; 'a.+' and 'a*' are not, the first a
\* valid pattern, the second not one
C26_Witness ==
    /\ Validating
    /\ ~threw
    /\ callTopic = <<"a", ".", "b">>
    /\ validatePublishTopic(<<"a", ".", "+">>)
    /\ ~compileMatcher(<<>>, <<"a", ".", "+">>).threw
    /\ validatePublishTopic(<<"a", "*">>)
    /\ compileMatcher(<<>>, <<"a", "*">>).threw

(***************************************************************************)
(* C27.  matchTopic, validatePublishTopic, splitTopic, joinTopic and       *)
(* getMatcherCacheSize never change the matcher cache, and matchTopic      *)
(* never changes the matcher it is given; only a successful compileMatcher *)
(* of an uncached pattern and clearMatcherCache change the cache.          *)
(***************************************************************************)
C27_Frame ==
    [][/\ callOp' \in {"matchTopic", "validatePublishTopic", "splitTopic",
                       "joinTopic", "getMatcherCacheSize"}
              => /\ matcherCache' = matcherCache
                 /\ cacheRefs' = cacheRefs
       /\ Matching' => callMatcher' \in Held
       /\ (matcherCache' # matcherCache \/ cacheRefs' # cacheRefs)
              => \/ Compiling' /\ ~threw' /\ ~Cached(callPattern')
                 \/ callOp' = "clearMatcherCache"]_vars

\* getMatcherCacheSize on a full cache that has served a hit
C27_Witness ==
    /\ callOp = "getMatcherCacheSize"
    /\ callSize = MAX_CACHE_SIZE
    /\ Len(matcherCache) = MAX_CACHE_SIZE
    /\ lastHit # <<>>


(***************************************************************************)
(* SpecSteps: compileMatcher and matchTopic executed one loop iteration    *)
(* and one matchSegments call at a time.  The calls of matchSegments are   *)
(* all in return position, so the stack is described by its depth and the  *)
(* arguments of the innermost call.                                        *)
(***************************************************************************)

\* lines 8-17 on a pattern that is not cached: the falsy test, then split
compileMatcherEnter(pattern) ==
    IF pattern = <<>>
    THEN [NoRun EXCEPT !.op = "compileMatcher", !.threw = TRUE]
    ELSE [NoRun EXCEPT !.op = "compileMatcher", !.done = FALSE,
                       !.pattern = pattern, !.parts = splitTopic(pattern)]

\* lines 18-51, one evaluation of the loop test: the body for segment i,
\* or the exit of the loop and the return of the matcher
compileLoopStep(r) ==
    IF ~(r.i < Len(r.parts))
    THEN [r EXCEPT !.done = TRUE]
    ELSE LET s == CompileSegment(r.parts, r.i) IN
         IF s.threw
         THEN [r EXCEPT !.done = TRUE, !.threw = TRUE]
         ELSE [r EXCEPT !.i = r.i + 1,
                        !.segments = Append(r.segments, s.record),
                        !.hasWildcards = r.hasWildcards \/ s.wildcard]

\* lines 54-62 on the matcher of r: the two early returns, or the first
\* call of matchSegments
matchTopicEnter(r, topic) ==
    LET m == [r EXCEPT !.op = "matchTopic", !.topic = topic] IN
    IF ~r.hasWildcards
    THEN [m EXCEPT !.result = (topic = r.pattern)]
    ELSE LET topicSegments == splitTopic(topic) IN
         IF \E k \in 1..Len(topicSegments) : Len(topicSegments[k]) = 0
         THEN [m EXCEPT !.topicSegments = topicSegments]
         ELSE [m EXCEPT !.done = FALSE, !.topicSegments = topicSegments,
                        !.depth = 1]

\* Variant: a multi record consumes the topic one segment per call.
matchSegmentsStepMultiWalks(r) ==
    IF r.patternIndex >= Len(r.segments)
    THEN [r EXCEPT !.done = TRUE,
                   !.result = (r.topicIndex >= Len(r.topicSegments))]
    ELSE LET patternSegment == r.segments[r.patternIndex + 1] IN
         IF patternSegment.type = "multi"
         THEN IF r.topicIndex >= Len(r.topicSegments)
              THEN [r EXCEPT !.done = TRUE, !.result = TRUE]
              ELSE [r EXCEPT !.topicIndex = r.topicIndex + 1,
                             !.depth = r.depth + 1]
         ELSE IF r.topicIndex >= Len(r.topicSegments)
         THEN [r EXCEPT !.done = TRUE]
         ELSE IF /\ patternSegment.type = "literal"
                 /\ r.topicSegments[r.topicIndex + 1] # patternSegment.value
         THEN [r EXCEPT !.done = TRUE]
         ELSE [r EXCEPT !.topicIndex = r.topicIndex + 1,
                        !.patternIndex = r.patternIndex + 1,
                        !.depth = r.depth + 1]

\* lines 65-85, the body of the innermost call: it returns, and every
\* caller with it, or it calls matchSegments once more
matchSegmentsStep(r) ==
    IF r.patternIndex >= Len(r.segments)
    THEN [r EXCEPT !.done = TRUE,
                   !.result = (r.topicIndex >= Len(r.topicSegments))]
    ELSE LET patternSegment == r.segments[r.patternIndex + 1] IN
         IF patternSegment.type = "multi"
         THEN [r EXCEPT !.done = TRUE, !.result = TRUE]
         ELSE IF patternSegment.type = "single"
         THEN IF r.topicIndex >= Len(r.topicSegments)
              THEN [r EXCEPT !.done = TRUE]
              ELSE [r EXCEPT !.topicIndex = r.topicIndex + 1,
                             !.patternIndex = r.patternIndex + 1,
                             !.depth = r.depth + 1]
         ELSE IF r.topicIndex >= Len(r.topicSegments)
              THEN [r EXCEPT !.done = TRUE]
              ELSE IF r.topicSegments[r.topicIndex + 1] # patternSegment.value
              THEN [r EXCEPT !.done = TRUE]
              ELSE [r EXCEPT !.topicIndex = r.topicIndex + 1,
                             !.patternIndex = r.patternIndex + 1,
                             !.depth = r.depth + 1]

\* every variable but run
callVars ==
    <<matcherCache, callOp, callPattern, callTopic, callMatcher, threw,
      matched, evicted, lastHit, callHit, cacheRefs, callRef, callSegments,
      callSize, everCached>>

CompileEnter(pattern) ==
    /\ run.op = "none"
    /\ run' = compileMatcherEnter(pattern)
    /\ UNCHANGED <<callVars, busVars>>

CompileStep ==
    /\ run.op = "compileMatcher"
    /\ ~run.done
    /\ run' = compileLoopStep(run)
    /\ UNCHANGED <<callVars, busVars>>

MatchEnter(topic) ==
    /\ run.op = "compileMatcher"
    /\ run.done
    /\ ~run.threw
    /\ run' = matchTopicEnter(run, topic)
    /\ UNCHANGED <<callVars, busVars>>

MatchStep ==
    /\ run.op = "matchTopic"
    /\ ~run.done
    /\ run' = matchSegmentsStep(run)
    /\ UNCHANGED <<callVars, busVars>>

NextSteps ==
    \/ \E pattern \in PatternInputs \cup {<<>>} : CompileEnter(pattern)
    \/ CompileStep
    \/ \E topic \in TopicInputs : MatchEnter(topic)
    \/ MatchStep

\* a call that was entered keeps executing
SpecSteps ==
    Init /\ [][NextSteps]_vars /\ WF_vars(CompileStep) /\ WF_vars(MatchStep)


\* the matcher the finished loop of r returned (lines 41-45)
MatcherOf(r) ==
    [pattern |-> r.pattern, hasWildcards |-> r.hasWildcards,
     segments |-> r.segments]

\* the finished calls returned what the functions return
StepsAgree ==
    /\ run.op = "compileMatcher" /\ run.done
           => LET c == compileMatcher(MapClear(matcherCache), run.pattern) IN
              /\ run.threw = c.threw
              /\ ~run.threw => MatcherOf(run) = c.matcher
    /\ run.op = "matchTopic" /\ run.done
           => run.result = matchTopic(run.topic, MatcherOf(run))

\* C28: compileMatcher and matchTopic terminate on every input.  Every call
\* that was entered returns; the loop of compileMatcher runs at most once
\* per piece of the pattern; each recursive matchSegments call has a
\* pattern index one higher than its caller, so the depth of the recursion
\* is at most the number of pattern segments plus one, whatever the length
\* of the topic.
C28_Terminates ==
    /\ (~run.done) ~> run.done
    /\ [](run.op = "compileMatcher" => run.i <= Len(run.parts))
    /\ [](run.op = "matchTopic" => run.depth <= Len(run.segments) + 1)
    /\ [][run.op = "matchTopic" /\ run'.depth # run.depth
              => /\ run'.depth = run.depth + 1
                 /\ run'.patternIndex = run.patternIndex + 1]_vars
    /\ []StepsAgree

\* C28 witness: a recursion of full depth on a topic longer than the
\* pattern has returned.
C28_Witness ==
    /\ run.op = "matchTopic"
    /\ run.done
    /\ Len(run.segments) > 1
    /\ run.depth = Len(run.segments) + 1
    /\ Len(run.topicSegments) > Len(run.segments)


\* the record that stands for the piece seg of a pattern
RecordFor(seg) ==
    IF seg = MULTI_WILDCARD THEN [type |-> "multi"]
    ELSE IF seg = SINGLE_WILDCARD THEN [type |-> "single"]
    ELSE [type |-> "literal", value |-> seg]

WellFormedEntry(key, m) ==
    /\ m.pattern = key
    /\ Len(m.segments) = NumSegments(key)
    /\ \A n \in 1..Len(m.segments) :
           /\ m.segments[n] = RecordFor(SegmentAt(key, n))
           /\ m.segments[n].type = "literal"
                  => LiteralSegment(m.segments[n].value)
           /\ m.segments[n].type = "multi" => n = Len(m.segments)
    /\ m.hasWildcards
           <=> \E n \in 1..Len(m.segments) :
                   m.segments[n].type \in {"single", "multi"}

\* C29: in every reachable state each cache entry is well-formed.  The
\* entry under key k has pattern = k, one segment record per dot-separated
\* piece of k with the matching tag (literal with that value, single for
\* '+', multi for '#'), a multi record only in last position, and
\* hasWildcards true exactly when some record is single or multi.
C29_EntriesWellFormed ==
    \A k \in 1..Len(matcherCache) :
        WellFormedEntry(matcherCache[k].key, matcherCache[k].value)

\* C29 witness: a full cache that holds a literal, a single and a multi
\* record, and an entry without wildcards.
C29_Witness ==
    /\ Len(matcherCache) = MAX_CACHE_SIZE
    /\ \A type \in {"literal", "single", "multi"} :
           \E k \in 1..Len(matcherCache) :
               \E n \in 1..Len(matcherCache[k].value.segments) :
                   matcherCache[k].value.segments[n].type = type
    /\ \E k \in 1..Len(matcherCache) : ~matcherCache[k].value.hasWildcards

====
